---- MODULE Spec2Model ----
(***************************************************************************)
(* Model of the meeting-archive normalization pipeline:                    *)
(*   src/src/parsers/data_parser.py      load_archive, normalize_meeting   *)
(*   src/src/models/*.py                 Meeting, ActionItem, Decision     *)
(*   src/src/utils/*.py                  text and date helpers             *)
(*   src/src/services/filter_service.py  FilterService                     *)
(*   src/src/services/aggregation_service.py  AggregationService           *)
(*                                                                         *)
(* Strings are sequences of one-character strings, so that strip(),        *)
(* lower() and split(",") are computed character by character.  JSON and   *)
(* Python values carry a tag t: "null", "num", "str", "arr", "obj",        *)
(* "date".  A datetime is the number of its day.                           *)
(***************************************************************************)
EXTENDS Integers, Sequences, FiniteSets, TLC

VARIABLES
    file,      \* what json_file_path points at
    pc,        \* position inside load_archive, or the component in use
    index,     \* loop index of load_archive (0-based, as enumerate)
    meetings,  \* the list load_archive accumulates and returns
    call,      \* the last constructor or service call and its arguments
    ret,       \* what that call returned, or the exception that reached the caller
    call2,     \* a service call made on the result of `call`
    ret2,      \* what the second call returned
    threads    \* the operations running concurrently over meetings, per thread

vars == <<file, pc, index, meetings, call, ret, call2, ret2, threads>>

----------------------------------------------------------------------------
(* Bounds of the model *)

\* longest archive (number of array elements) that load_archive is run on
MaxRecords == 2
\* longest archive behind a meeting collection handed to the services
MaxMeetings == 2
\* longest archive behind the meetings of a WorkgroupService
MaxGrouped == 3

----------------------------------------------------------------------------
(* Values *)

JNull == [t |-> "null"]
JNum == [t |-> "num"]
JStr(s) == [t |-> "str", v |-> s]
JArr(a) == [t |-> "arr", v |-> a]
JDate(d) == [t |-> "date", v |-> d]

Range(s) == {s[i] : i \in 1..Len(s)}

\* a JSON object (a Python dict) from a sequence of <<key, value>> pairs
JObj(kv) ==
    [t |-> "obj",
     v |-> [k \in {p[1] : p \in Range(kv)} |->
               (CHOOSE p \in Range(kv) : p[1] = k)[2]]]

\* Python truth value: None, "", [] and {} are false; a datetime and the
\* (non-zero) number JNum are true
Truthy(x) ==
    CASE x.t = "null" -> FALSE
      [] x.t = "num" -> TRUE
      [] x.t = "date" -> TRUE
      [] x.t = "str" -> x.v # <<>>
      [] x.t = "arr" -> x.v # <<>>
      [] x.t = "obj" -> DOMAIN x.v # {}

\* key in d
Has(d, k) == k \in DOMAIN d.v

\* d.get(k): None when the key is absent
Get(d, k) == IF Has(d, k) THEN d.v[k] ELSE JNull

\* d.get(k, default): the default only when the key is absent
GetD(d, k, default) == IF Has(d, k) THEN d.v[k] ELSE default

\* the outcome of a call: the value it returns, or the exception it raises
Return(v) == [exc |-> "none", msg |-> "", val |-> v]
Raise(e, m) == [exc |-> e, msg |-> m, val |-> JNull]

----------------------------------------------------------------------------
(* Strings *)

UpperCase == <<"A","B","C","D","E","F","G","H","I","J","K","L","M",
               "N","O","P","Q","R","S","T","U","V","W","X","Y","Z">>
LowerCase == <<"a","b","c","d","e","f","g","h","i","j","k","l","m",
               "n","o","p","q","r","s","t","u","v","w","x","y","z">>

LowerChar(c) ==
    IF \E i \in 1..Len(UpperCase) : UpperCase[i] = c
    THEN LowerCase[CHOOSE i \in 1..Len(UpperCase) : UpperCase[i] = c]
    ELSE c

\* str.lower()
Lower(s) == [i \in 1..Len(s) |-> LowerChar(s[i])]

Whitespace == {" "}

RECURSIVE LStrip(_)
LStrip(s) ==
    IF s # <<>> /\ Head(s) \in Whitespace THEN LStrip(Tail(s)) ELSE s

RECURSIVE RStrip(_)
RStrip(s) ==
    IF s # <<>> /\ s[Len(s)] \in Whitespace
    THEN RStrip(SubSeq(s, 1, Len(s) - 1))
    ELSE s

\* str.strip()
Strip(s) == RStrip(LStrip(s))

\* str.split(","): "" gives [""], "a,,b" gives ["a", "", "b"]
RECURSIVE SplitComma(_)
SplitComma(s) ==
    IF s = <<>> THEN << <<>> >>
    ELSE LET rest == SplitComma(Tail(s))
         IN  IF Head(s) = ","
             THEN << <<>> >> \o rest
             ELSE << <<Head(s)>> \o Head(rest) >> \o Tail(rest)

\* [f(x) for x in s]
RECURSIVE StripAll(_)
StripAll(s) ==
    IF s = <<>> THEN <<>> ELSE <<Strip(Head(s))>> \o StripAll(Tail(s))

RECURSIVE DropEmpty(_)
DropEmpty(s) ==
    IF s = <<>> THEN <<>>
    ELSE IF Head(s) = <<>> THEN DropEmpty(Tail(s))
         ELSE <<Head(s)>> \o DropEmpty(Tail(s))

\* a split that trims the pieces and keeps the empty ones
ParseCommaSeparatedKeepsEmpty(text) ==
    IF ~Truthy(text) THEN <<>>
    ELSE StripAll(SplitComma(text.v))

\* parse_comma_separated_string(text), text a str or None
parse_comma_separated_string(text) ==
    IF ~Truthy(text) THEN <<>>
    ELSE DropEmpty(StripAll(SplitComma(text.v)))

\* normalize_name(name), name a str
normalize_name(name) == IF name = <<>> THEN <<>> ELSE Strip(name)

\* normalize_topic(topic), topic a str
normalize_topic(topic) == IF topic = <<>> THEN <<>> ELSE Lower(Strip(topic))

----------------------------------------------------------------------------
(* Dates *)

d_0101 == <<"2","0","2","5","-","0","1","-","0","1">>
d_0115 == <<"2","0","2","5","-","0","1","-","1","5">>
d_0115_long == <<"1","5"," ","J","a","n","u","a","r","y"," ","2","0","2","5">>
d_0201 == <<"2","0","2","5","-","0","2","-","0","1">>
d_bad == <<"n","o","t"," ","a"," ","d","a","t","e">>

\* the date strings the two parsers of parse_date accept, with the day
\* (counted from 2024-12-31) they denote; every other string is rejected
ParseableDates ==
    {<<d_0101, 1>>, <<d_0115, 15>>, <<d_0115_long, 15>>, <<d_0201, 32>>}

\* parse_date(date_str): [exc, val]
parse_date(date_str) ==
    IF ~Truthy(date_str) THEN Raise("ValueError", "Date string cannot be empty")
    ELSE IF \E p \in ParseableDates : p[1] = date_str.v
         THEN Return(JDate((CHOOSE p \in ParseableDates : p[1] = date_str.v)[2]))
         ELSE Raise("ValueError", "Unable to parse date string")

----------------------------------------------------------------------------
(* ActionItem *)

s_todo == <<"t","o","d","o">>
s_to_do_sp == <<"t","o"," ","d","o">>
s_to_do_hy == <<"t","o","-","d","o">>
s_in_progress == <<"i","n"," ","p","r","o","g","r","e","s","s">>
s_in_progress_hy == <<"i","n","-","p","r","o","g","r","e","s","s">>
s_inprogress == <<"i","n","p","r","o","g","r","e","s","s">>
s_in_progress_us == <<"i","n","_","p","r","o","g","r","e","s","s">>
s_done == <<"d","o","n","e">>
s_completed == <<"c","o","m","p","l","e","t","e","d">>
s_complete == <<"c","o","m","p","l","e","t","e">>
s_cancelled == <<"c","a","n","c","e","l","l","e","d">>
s_canceled == <<"c","a","n","c","e","l","e","d">>

valid_statuses == {s_todo, s_in_progress, s_done, s_cancelled}

\* a _normalize_status whose fallback keeps the lower-cased input
NormalizeStatusKeepsUnknown(status) ==
    IF ~Truthy(status) THEN s_todo
    ELSE LET status_lower == Strip(Lower(status.v))
         IN  IF status_lower \in {s_todo, s_to_do_sp, s_to_do_hy} THEN s_todo
             ELSE IF status_lower \in {s_in_progress, s_in_progress_hy,
                                       s_inprogress, s_in_progress_us}
                  THEN s_in_progress
             ELSE IF status_lower \in {s_done, s_completed, s_complete}
                  THEN s_done
             ELSE IF status_lower \in {s_cancelled, s_canceled}
                  THEN s_cancelled
             ELSE status_lower

\* ActionItem._normalize_status(status), status a str or None
_normalize_status(status) ==
    IF ~Truthy(status) THEN s_todo
    ELSE LET status_lower == Strip(Lower(status.v))
         IN  IF status_lower \in {s_todo, s_to_do_sp, s_to_do_hy} THEN s_todo
             ELSE IF status_lower \in {s_in_progress, s_in_progress_hy,
                                       s_inprogress, s_in_progress_us}
                  THEN s_in_progress
             ELSE IF status_lower \in {s_done, s_completed, s_complete}
                  THEN s_done
             ELSE IF status_lower \in {s_cancelled, s_canceled, s_cancelled}
                  THEN s_cancelled
             ELSE s_todo

\* ActionItem.__init__: [exc, val]; text, status, assignee, due_date are a
\* str or None
ActionItem(id, meeting_id, workgroup, date, text, status, assignee, due_date) ==
    LET self == [id |-> id,
                 meeting_id |-> meeting_id,
                 workgroup |-> workgroup,
                 date |-> date,
                 text |-> IF Truthy(text) THEN Strip(text.v) ELSE <<>>,
                 status |-> _normalize_status(status),
                 assignee |-> IF Truthy(assignee)
                              THEN JStr(Strip(assignee.v)) ELSE JNull,
                 due_date |-> IF Truthy(due_date)
                              THEN JStr(Strip(due_date.v)) ELSE JNull]
    IN  IF self.text = <<>> THEN Raise("ValueError", "text must be non-empty")
        ELSE IF self.status \notin valid_statuses
             THEN Raise("ValueError", "status must be one of valid_statuses")
        ELSE Return(self)

----------------------------------------------------------------------------
(* Decision *)

s_affectsonlythisworkgroup ==
    <<"a","f","f","e","c","t","s","o","n","l","y",
      "t","h","i","s","w","o","r","k","g","r","o","u","p">>
s_mayaffectotherpeople ==
    <<"m","a","y","a","f","f","e","c","t","o","t","h","e","r",
      "p","e","o","p","l","e">>
s_affectsOnlyThisWorkgroup ==
    <<"a","f","f","e","c","t","s","O","n","l","y",
      "T","h","i","s","W","o","r","k","g","r","o","u","p">>
s_mayAffectOtherPeople ==
    <<"m","a","y","A","f","f","e","c","t","O","t","h","e","r",
      "P","e","o","p","l","e">>

valid_effects == {s_affectsonlythisworkgroup, s_mayaffectotherpeople}

\* a Decision that stores the effect as it was given, without validating it
DecisionKeepsEffect(id, meeting_id, workgroup, date, decision_text, effect, rationale, opposing) ==
    LET text == IF Truthy(decision_text) THEN Strip(decision_text.v) ELSE <<>>
    IN  IF text = <<>> THEN Raise("ValueError", "decision_text must be non-empty")
        ELSE Return([id |-> id, meeting_id |-> meeting_id,
                     workgroup |-> workgroup, date |-> date,
                     decision_text |-> text,
                     rationale |-> JNull, opposing |-> JNull,
                     effect |-> IF Truthy(effect) THEN effect.v
                                ELSE s_affectsOnlyThisWorkgroup])

\* Decision.__init__: [exc, val]; decision_text, effect, rationale, opposing
\* are a str or None
Decision(id, meeting_id, workgroup, date, decision_text, effect, rationale, opposing) ==
    LET text == IF Truthy(decision_text) THEN Strip(decision_text.v) ELSE <<>>
        effect_normalized ==
            Lower(IF Truthy(effect) THEN effect.v ELSE s_affectsOnlyThisWorkgroup)
    IN  IF text = <<>> THEN Raise("ValueError", "decision_text must be non-empty")
        ELSE IF effect_normalized \notin valid_effects
             THEN Raise("ValueError", "effect must be one of the two effects")
        ELSE Return([id |-> id, meeting_id |-> meeting_id,
                     workgroup |-> workgroup, date |-> date,
                     decision_text |-> text,
                     rationale |-> IF Truthy(rationale)
                                   THEN JStr(Strip(rationale.v)) ELSE JNull,
                     opposing |-> IF Truthy(opposing)
                                  THEN JStr(Strip(opposing.v)) ELSE JNull,
                     effect |-> IF effect_normalized = s_affectsonlythisworkgroup
                                THEN s_affectsOnlyThisWorkgroup
                                ELSE s_mayAffectOtherPeople])

----------------------------------------------------------------------------
(* Meeting *)

\* Meeting.__init__ (the fields the pipeline reads; purpose, type_of_meeting,
\* meeting_video_link and the two summary flags are stored as given and are
\* left out): each collection is `argument or []`
Meeting(id, workgroup, workgroup_id, date, type, host, documenter, people_present, working_docs, action_items, decisions, discussion_points, topics_covered, emotions) ==
    [id |-> id, workgroup |-> workgroup, workgroup_id |-> workgroup_id,
     date |-> date, type |-> type, host |-> host, documenter |-> documenter,
     people_present |-> IF Truthy(people_present) THEN people_present
                        ELSE JArr(<<>>),
     working_docs |-> IF Truthy(working_docs) THEN working_docs ELSE JArr(<<>>),
     action_items |-> IF Truthy(action_items) THEN action_items ELSE JArr(<<>>),
     decisions |-> IF Truthy(decisions) THEN decisions ELSE JArr(<<>>),
     discussion_points |-> IF Truthy(discussion_points) THEN discussion_points
                           ELSE JArr(<<>>),
     topics_covered |-> IF Truthy(topics_covered) THEN topics_covered
                        ELSE JArr(<<>>),
     emotions |-> IF Truthy(emotions) THEN emotions ELSE JArr(<<>>)]

----------------------------------------------------------------------------
(* normalize_meeting *)

Digit == <<"0","1","2","3","4","5","6","7","8","9">>

\* an index formatted without regard to its value
IntToStrZero(n) == <<Digit[1]>>

\* str(n) for a natural number n
RECURSIVE IntToStr(_)
IntToStr(n) ==
    IF n < Len(Digit) THEN <<Digit[n + 1]>>
    ELSE IntToStr(n \div Len(Digit)) \o <<Digit[(n % Len(Digit)) + 1]>>

s_action == <<"_","a","c","t","i","o","n","_">>
s_decision == <<"_","d","e","c","i","s","i","o","n","_">>

\* except clauses that let a ValueError through
CaughtKeyErrorOnly == {"KeyError"}

\* the exceptions the two `except (ValueError, KeyError)` clauses catch
Caught == {"ValueError", "KeyError"}

\* [normalize_name(name) for name in names]
RECURSIVE NormalizeNames(_)
NormalizeNames(names) ==
    IF names = <<>> THEN <<>>
    ELSE <<normalize_name(Head(names))>> \o NormalizeNames(Tail(names))

\* the elements of a JSON array of strings, as Python strs
Strs(a) == [i \in 1..Len(a) |-> a[i].v]

\* first loop over agendaItems (data_parser.py 142-149): the discussion points
RECURSIVE DiscussionPoints(_)
DiscussionPoints(agenda_items) ==
    IF agenda_items = <<>> THEN Return(<<>>)
    ELSE LET agenda_item == Head(agenda_items)
         IN  IF agenda_item.t # "obj"
             THEN Raise("TypeError", "argument of type is not iterable")
             ELSE LET points == IF Has(agenda_item, "discussionPoints")
                                THEN Strs(agenda_item.v["discussionPoints"].v)
                                ELSE <<>>
                      narrative ==
                          IF Has(agenda_item, "narrative")
                             /\ Truthy(agenda_item.v["narrative"])
                          THEN <<agenda_item.v["narrative"].v>>
                          ELSE <<>>
                      rest == DiscussionPoints(Tail(agenda_items))
                  IN  IF rest.exc # "none" THEN rest
                      ELSE Return(points \o narrative \o rest.val)

\* the loop over one agenda item's actionItems (data_parser.py 166-182),
\* from position action_index on
RECURSIVE ParseActionItems(_, _, _, _, _, _)
ParseActionItems(raw_actions, action_index, agenda_item_index, meeting_id, workgroup, date) ==
    IF action_index >= Len(raw_actions) THEN Return(<<>>)
    ELSE LET raw_action == raw_actions[action_index + 1]
         IN  IF raw_action.t # "obj"
             THEN Raise("AttributeError", "object has no attribute get")
             ELSE
             LET action_id == meeting_id \o s_action
                                \o IntToStr(agenda_item_index) \o <<"_">>
                                \o IntToStr(action_index)
                 made == ActionItem(
                     JStr(action_id), JStr(meeting_id), workgroup, date,
                     GetD(raw_action, "text", JStr(<<>>)),
                     GetD(raw_action, "status", JStr(s_todo)),
                     IF Truthy(Get(raw_action, "assignee"))
                     THEN JStr(normalize_name(Get(raw_action, "assignee").v))
                     ELSE JNull,
                     Get(raw_action, "dueDate"))
             IN  IF made.exc # "none" /\ made.exc \notin Caught THEN made
                 ELSE LET rest == ParseActionItems(raw_actions, action_index + 1,
                                      agenda_item_index, meeting_id, workgroup, date)
                      IN  IF rest.exc # "none" THEN rest
                          ELSE IF made.exc # "none" THEN rest
                          ELSE Return(<<made.val>> \o rest.val)

\* the loop over one agenda item's decisionItems (data_parser.py 186-202)
RECURSIVE ParseDecisionItems(_, _, _, _, _, _)
ParseDecisionItems(raw_decisions, decision_index, agenda_item_index, meeting_id, workgroup, date) ==
    IF decision_index >= Len(raw_decisions) THEN Return(<<>>)
    ELSE LET raw_decision == raw_decisions[decision_index + 1]
         IN  IF raw_decision.t # "obj"
             THEN Raise("AttributeError", "object has no attribute get")
             ELSE
             LET decision_id == meeting_id \o s_decision
                                  \o IntToStr(agenda_item_index) \o <<"_">>
                                  \o IntToStr(decision_index)
                 made == Decision(
                     JStr(decision_id), JStr(meeting_id), workgroup, date,
                     GetD(raw_decision, "decision", JStr(<<>>)),
                     GetD(raw_decision, "effect", JStr(s_affectsOnlyThisWorkgroup)),
                     Get(raw_decision, "rationale"),
                     Get(raw_decision, "opposing"))
             IN  IF made.exc # "none" /\ made.exc \notin Caught THEN made
                 ELSE LET rest == ParseDecisionItems(raw_decisions,
                                      decision_index + 1, agenda_item_index,
                                      meeting_id, workgroup, date)
                      IN  IF rest.exc # "none" THEN rest
                          ELSE IF made.exc # "none" THEN rest
                          ELSE Return(<<made.val>> \o rest.val)

\* the items of an agenda item's array field, [] when the key is absent
\* (`if key in agenda_item`); a null array cannot be enumerated
ItemsOf(agenda_item, key) ==
    IF ~Has(agenda_item, key) THEN Return(<<>>)
    ELSE IF agenda_item.v[key].t # "arr"
         THEN Raise("TypeError", "object is not iterable")
         ELSE Return(agenda_item.v[key].v)

\* second loop over agendaItems (data_parser.py 163-202), from position
\* agenda_item_index on: val is [action_items, decisions]
RECURSIVE ParseAgenda(_, _, _, _, _)
ParseAgenda(agenda_items, agenda_item_index, meeting_id, workgroup, date) ==
    IF agenda_item_index >= Len(agenda_items)
    THEN Return([action_items |-> <<>>, decisions |-> <<>>])
    ELSE
    LET agenda_item == agenda_items[agenda_item_index + 1]
        raw_actions == ItemsOf(agenda_item, "actionItems")
        raw_decisions == ItemsOf(agenda_item, "decisionItems")
        actions == IF raw_actions.exc # "none" THEN raw_actions
                   ELSE ParseActionItems(raw_actions.val, 0, agenda_item_index,
                                         meeting_id, workgroup, date)
        decs == IF raw_decisions.exc # "none" THEN raw_decisions
                ELSE ParseDecisionItems(raw_decisions.val, 0, agenda_item_index,
                                        meeting_id, workgroup, date)
    IN  IF actions.exc # "none" THEN actions
        ELSE IF decs.exc # "none" THEN decs
        ELSE LET rest == ParseAgenda(agenda_items, agenda_item_index + 1,
                                     meeting_id, workgroup, date)
             IN  IF rest.exc # "none" THEN rest
                 ELSE Return([action_items |-> actions.val \o rest.val.action_items,
                              decisions |-> decs.val \o rest.val.decisions])

\* normalize_meeting(raw_meeting, index): [exc, msg, val]
normalize_meeting(raw_meeting, idx) ==
    IF raw_meeting.t # "obj"
    THEN Raise("AttributeError", "object has no attribute get")
    ELSE
    LET workgroup == Get(raw_meeting, "workgroup")
        workgroup_id == Get(raw_meeting, "workgroup_id")
        meeting_type == Get(raw_meeting, "type")
        meeting_info == GetD(raw_meeting, "meetingInfo", JObj(<<>>))
    IN
    IF ~Truthy(workgroup)
    THEN Raise("ValueError", "Missing required field: workgroup")
    ELSE IF ~Truthy(workgroup_id)
    THEN Raise("ValueError", "Missing required field: workgroup_id")
    ELSE IF ~Truthy(meeting_type)
    THEN Raise("ValueError", "Missing required field: type")
    ELSE IF ~Truthy(meeting_info)
    THEN Raise("ValueError", "Missing required field: meetingInfo")
    ELSE IF meeting_info.t # "obj"
    THEN Raise("AttributeError", "object has no attribute get")
    ELSE
    LET date_str == Get(meeting_info, "date")
        parsed == parse_date(date_str)
    IN
    IF ~Truthy(date_str)
    THEN Raise("ValueError", "Missing required field: meetingInfo.date")
    ELSE IF parsed.exc # "none"
    THEN Raise("ValueError", "Invalid date format")
    ELSE
    LET date == parsed.val
        meeting_id == workgroup_id.v \o <<"_">> \o date_str.v \o <<"_">>
                        \o IntToStr(idx)
        host == IF Truthy(Get(meeting_info, "host"))
                THEN JStr(normalize_name(Get(meeting_info, "host").v))
                ELSE Get(meeting_info, "host")
        documenter == IF Truthy(Get(meeting_info, "documenter"))
                      THEN JStr(normalize_name(Get(meeting_info, "documenter").v))
                      ELSE Get(meeting_info, "documenter")
        people_present ==
            NormalizeNames(
                parse_comma_separated_string(Get(meeting_info, "peoplePresent")))
        working_docs == GetD(meeting_info, "workingDocs", JArr(<<>>))
        tags == GetD(raw_meeting, "tags", JObj(<<>>))
    IN
    IF tags.t # "obj"
    THEN Raise("AttributeError", "object has no attribute get")
    ELSE
    LET topics_from_tags == parse_comma_separated_string(Get(tags, "topicsCovered"))
        emotions == parse_comma_separated_string(Get(tags, "emotions"))
        agenda_items == GetD(raw_meeting, "agendaItems", JArr(<<>>))
    IN
    IF agenda_items.t # "arr"
    THEN Raise("TypeError", "object is not iterable")
    ELSE
    LET discussion_points == DiscussionPoints(agenda_items.v)
        meeting_topics == Get(raw_meeting, "meetingTopics")
        topics_covered ==
            topics_from_tags \o
            (IF ~Has(raw_meeting, "meetingTopics") THEN <<>>
             ELSE IF meeting_topics.t = "arr" THEN Strs(meeting_topics.v)
             ELSE IF meeting_topics.t = "str"
                  THEN parse_comma_separated_string(meeting_topics)
             ELSE <<>>)
        items == ParseAgenda(agenda_items.v, 0, meeting_id, workgroup, date)
    IN
    IF discussion_points.exc # "none" THEN discussion_points
    ELSE IF items.exc # "none" THEN items
    ELSE Return(Meeting(JStr(meeting_id), workgroup, workgroup_id, date,
                        meeting_type, host, documenter,
                        JArr(people_present), working_docs,
                        JArr(items.val.action_items), JArr(items.val.decisions),
                        JArr(discussion_points.val), JArr(topics_covered),
                        JArr(emotions)))

----------------------------------------------------------------------------
(* The archives the model loads *)

n_Gov == <<"G","o","v">>
n_Edu == <<"E","d","u">>
n_g1 == <<"g","1">>
n_e1 == <<"e","1">>
n_Custom == <<"C","u","s","t","o","m">>
n_Alice_sp == <<" ","A","l","i","c","e"," ">>
n_Alice == <<"A","l","i","c","e">>
n_Bob == <<"B","o","b">>
n_people == <<"A","l","i","c","e",","," ","B","o","b"," ",",",",">>
n_topics == <<"A","I",","," ","a","i",",",",","G","o","v"," ">>
n_topics2 == <<" ","G","o","v",",","E","d","u">>
n_calm == <<"c","a","l","m">>
n_fix == <<"F","i","x"," ","b","u","g">>
n_write == <<"W","r","i","t","e"," ","d","o","c","s"," ">>
n_blank == <<" "," ">>
n_adopt == <<"A","d","o","p","t">>
n_defer == <<"D","e","f","e","r">>
n_fund == <<"F","u","n","d">>
n_ToDo == <<"T","o","-","D","o">>
n_Completed == <<"C","o","m","p","l","e","t","e","d">>
n_INP == <<"I","N","_","P","R","O","G","R","E","S","S">>
n_MAY == <<"M","A","Y","A","F","F","E","C","T","O","T","H","E","R",
           "P","E","O","P","L","E">>
n_bogus == <<"b","o","g","u","s">>
n_point == <<"b","u","d","g","e","t">>
n_story == <<"r","e","c","a","p">>
n_doc == <<"n","o","t","e","s">>
n_ai == <<"a","i">>
n_GOV_sp == <<" ","G","O","V"," ">>
n_edu == <<"e","d","u">>
n_zzz == <<"z","z","z">>

\* a raw meeting with the three required top-level fields and the given rest
RawMeeting(workgroup, workgroup_id, rest) ==
    JObj(<< <<"workgroup", JStr(workgroup)>>,
            <<"workgroup_id", JStr(workgroup_id)>>,
            <<"type", JStr(n_Custom)>> >> \o rest)

InfoWithDate(date_str) == JObj(<< <<"date", JStr(date_str)>> >>)

\* three action items (the second with blank text) and three decisions (the
\* second with an unknown effect), in one agenda item
AgendaFull ==
    JArr(<< JObj(<< <<"discussionPoints", JArr(<<JStr(n_point)>>)>>,
                    <<"narrative", JStr(n_story)>>,
                    <<"actionItems",
                      JArr(<< JObj(<< <<"text", JStr(n_fix)>>,
                                      <<"status", JStr(n_ToDo)>>,
                                      <<"assignee", JStr(n_Alice_sp)>> >>),
                              JObj(<< <<"text", JStr(n_blank)>> >>),
                              JObj(<< <<"text", JStr(n_write)>>,
                                      <<"status", JStr(n_Completed)>> >>) >>)>>,
                    <<"decisionItems",
                      JArr(<< JObj(<< <<"decision", JStr(n_adopt)>>,
                                      <<"effect", JStr(n_MAY)>> >>),
                              JObj(<< <<"decision", JStr(n_defer)>>,
                                      <<"effect", JStr(n_bogus)>> >>),
                              JObj(<< <<"decision", JStr(n_fund)>> >>) >>)>> >>) >>)

AgendaSmall ==
    JArr(<< JObj(<< <<"narrative", JStr(<<>>)>> >>),
            JObj(<< <<"actionItems",
                      JArr(<< JObj(<< <<"text", JStr(n_fix)>>,
                                      <<"status", JStr(n_INP)>>,
                                      <<"assignee", JStr(n_Bob)>> >>) >>)>>,
                    <<"decisionItems",
                      JArr(<< JObj(<< <<"decision", JStr(n_defer)>> >>) >>)>> >>) >>)

R_full ==
    RawMeeting(n_Gov, n_g1,
        << <<"meetingInfo",
             JObj(<< <<"date", JStr(d_0115)>>,
                     <<"host", JStr(n_Alice_sp)>>,
                     <<"documenter", JStr(n_Bob)>>,
                     <<"peoplePresent", JStr(n_people)>>,
                     <<"workingDocs",
                       JArr(<<JObj(<< <<"title", JStr(n_doc)>> >>)>>)>> >>)>>,
           <<"tags", JObj(<< <<"topicsCovered", JStr(n_topics)>>,
                             <<"emotions", JStr(n_calm)>> >>)>>,
           <<"meetingTopics", JArr(<<JStr(n_Gov)>>)>>,
           <<"agendaItems", AgendaFull>> >>)

\* only the required fields
R_min == RawMeeting(n_Edu, n_e1, << <<"meetingInfo", InfoWithDate(d_0101)>> >>)

\* null and empty optional fields, the date in its long spelling
R_long ==
    RawMeeting(n_Gov, n_g1,
        << <<"meetingInfo",
             JObj(<< <<"date", JStr(d_0115_long)>>,
                     <<"host", JNull>>,
                     <<"peoplePresent", JStr(<<>>)>>,
                     <<"workingDocs", JNull>> >>)>>,
           <<"tags", JObj(<< <<"topicsCovered", JStr(n_ai)>> >>)>>,
           <<"agendaItems", JArr(<<>>)>> >>)

R_feb ==
    RawMeeting(n_Edu, n_e1,
        << <<"meetingInfo", InfoWithDate(d_0201)>>,
           <<"meetingTopics", JStr(n_topics2)>>,
           <<"agendaItems", AgendaSmall>> >>)

\* records that normalize without an exception
GoodRecords == {R_full, R_min, R_long, R_feb}

\* workingDocs is a string where the input contract has an array; nothing in
\* normalize_meeting reads it, so the record normalizes
R_docs ==
    RawMeeting(n_Gov, n_g1,
        << <<"meetingInfo",
             JObj(<< <<"date", JStr(d_0101)>>,
                     <<"workingDocs", JStr(n_doc)>> >>)>> >>)

\* records with a required field absent or empty, or with a date no parser reads
MalformedRecords ==
    { JObj(<< <<"workgroup_id", JStr(n_g1)>>, <<"type", JStr(n_Custom)>>,
              <<"meetingInfo", InfoWithDate(d_0101)>> >>),
      JObj(<< <<"workgroup", JStr(<<>>)>>, <<"workgroup_id", JStr(n_g1)>>,
              <<"type", JStr(n_Custom)>>,
              <<"meetingInfo", InfoWithDate(d_0101)>> >>),
      JObj(<< <<"workgroup", JStr(n_Gov)>>, <<"type", JStr(n_Custom)>>,
              <<"meetingInfo", InfoWithDate(d_0101)>> >>),
      JObj(<< <<"workgroup", JStr(n_Gov)>>, <<"workgroup_id", JStr(n_g1)>>,
              <<"meetingInfo", InfoWithDate(d_0101)>> >>),
      RawMeeting(n_Gov, n_g1, <<>>),
      RawMeeting(n_Gov, n_g1, << <<"meetingInfo", JNull>> >>),
      RawMeeting(n_Gov, n_g1,
          << <<"meetingInfo", JObj(<< <<"host", JStr(n_Bob)>> >>)>> >>),
      RawMeeting(n_Gov, n_g1, << <<"meetingInfo", InfoWithDate(<<>>)>> >>),
      RawMeeting(n_Gov, n_g1, << <<"meetingInfo", InfoWithDate(d_bad)>> >>) }

\* elements with a value of a type the input contract does not allow
IllTypedRecords ==
    { JNum,
      RawMeeting(n_Gov, n_g1, << <<"meetingInfo", JStr(d_0101)>> >>),
      RawMeeting(n_Gov, n_g1, << <<"meetingInfo", InfoWithDate(d_0101)>>,
                                 <<"tags", JNull>> >>),
      RawMeeting(n_Gov, n_g1, << <<"meetingInfo", InfoWithDate(d_0101)>>,
                                 <<"agendaItems", JNull>> >>),
      RawMeeting(n_Gov, n_g1, << <<"meetingInfo", InfoWithDate(d_0101)>>,
                                 <<"agendaItems", JArr(<<JNum>>)>> >>),
      RawMeeting(n_Gov, n_g1,
          << <<"meetingInfo", InfoWithDate(d_0101)>>,
             <<"agendaItems",
               JArr(<<JObj(<< <<"actionItems", JArr(<<JNum>>)>> >>)>>)>> >>),
      RawMeeting(n_Gov, n_g1,
          << <<"meetingInfo", InfoWithDate(d_0101)>>,
             <<"agendaItems",
               JArr(<<JObj(<< <<"decisionItems", JNull>> >>)>>)>> >>) }

RawElements ==
    GoodRecords \cup {R_docs} \cup MalformedRecords \cup IllTypedRecords

\* every sequence over S of length at most n
SeqsUpTo(S, n) == UNION {[1..k -> S] : k \in 0..n}

\* what may be at json_file_path: nothing, text that is not JSON, JSON whose
\* top-level value is a number or an object, or a JSON array
Files ==
    { [exists |-> FALSE, valid_json |-> FALSE, data |-> JNull],
      [exists |-> TRUE, valid_json |-> FALSE, data |-> JNull],
      [exists |-> TRUE, valid_json |-> TRUE, data |-> JNum],
      [exists |-> TRUE, valid_json |-> TRUE, data |-> R_min] }
    \cup { [exists |-> TRUE, valid_json |-> TRUE, data |-> JArr(a)] :
             a \in SeqsUpTo(RawElements, MaxRecords) }

----------------------------------------------------------------------------
(* load_archive *)

NoCall == [op |-> "none"]
Pending == [exc |-> "pending", msg |-> "", val |-> JNull]

\* file_path.exists()
PathExistsAlways(f) == TRUE
PathExists(f) == f.exists

\* meetings.append(meeting)
AppendMeeting(ms, meeting) == Append(ms, meeting)

Init ==
    /\ file \in Files
    /\ pc = "start"
    /\ index = 0
    /\ meetings = <<>>
    /\ call = [op |-> "load_archive"]
    /\ ret = Pending
    /\ call2 = NoCall
    /\ ret2 = Pending
    /\ threads = <<>>

\* line 34-35: the path does not exist
FileNotFound ==
    /\ pc = "start"
    /\ ~PathExists(file)
    /\ pc' = "raised"
    /\ ret' = Raise("FileNotFoundError", "JSON file not found")
    /\ UNCHANGED <<file, index, meetings, call, call2, ret2, threads>>

\* line 34: the path exists
OpenFile ==
    /\ pc = "start"
    /\ PathExists(file)
    /\ pc' = "opened"
    /\ UNCHANGED <<file, index, meetings, call, ret, call2, ret2, threads>>

\* line 39-44: json.load raises JSONDecodeError, which is re-raised
JsonDecodeError ==
    /\ pc = "opened"
    /\ ~file.valid_json
    /\ pc' = "raised"
    /\ ret' = Raise("JSONDecodeError", "Failed to parse JSON file")
    /\ UNCHANGED <<file, index, meetings, call, call2, ret2, threads>>

\* line 41: json.load returns raw_data
JsonLoad ==
    /\ pc = "opened"
    /\ file.valid_json
    /\ pc' = "parsed"
    /\ UNCHANGED <<file, index, meetings, call, ret, call2, ret2, threads>>

\* line 46-47: raw_data is not a list
NotAnArray ==
    /\ pc = "parsed"
    /\ file.data.t # "arr"
    /\ pc' = "raised"
    /\ ret' = Raise("ValueError", "JSON file must contain an array of meetings")
    /\ UNCHANGED <<file, index, meetings, call, call2, ret2, threads>>

\* line 49-50: meetings = [] and the loop starts
StartLoop ==
    /\ pc = "parsed"
    /\ file.data.t = "arr"
    /\ pc' = "loop"
    /\ index' = 0
    /\ meetings' = <<>>
    /\ UNCHANGED <<file, call, ret, call2, ret2, threads>>

\* a loop that numbers a record by its position in the list of meetings
\* made so far
LoopAppendAtPosition ==
    /\ pc = "loop"
    /\ index < Len(file.data.v)
    /\ normalize_meeting(file.data.v[index + 1], index).exc = "none"
    /\ meetings' = AppendMeeting(meetings,
                        normalize_meeting(file.data.v[index + 1],
                                          Len(meetings)).val)
    /\ index' = index + 1
    /\ UNCHANGED <<file, pc, call, ret, call2, ret2, threads>>

\* line 52-53: the element at index normalizes and is appended
LoopAppend ==
    /\ pc = "loop"
    /\ index < Len(file.data.v)
    /\ LET made == normalize_meeting(file.data.v[index + 1], index)
       IN  /\ made.exc = "none"
           /\ meetings' = AppendMeeting(meetings, made.val)
    /\ index' = index + 1
    /\ UNCHANGED <<file, pc, call, ret, call2, ret2, threads>>

\* line 54-56: normalize_meeting raises ValueError or KeyError: skip
LoopSkip ==
    /\ pc = "loop"
    /\ index < Len(file.data.v)
    /\ normalize_meeting(file.data.v[index + 1], index).exc \in Caught
    /\ index' = index + 1
    /\ UNCHANGED <<file, pc, meetings, call, ret, call2, ret2, threads>>

\* line 52: normalize_meeting raises an exception the except clause does
\* not name; it leaves load_archive
LoopRaise ==
    /\ pc = "loop"
    /\ index < Len(file.data.v)
    /\ LET made == normalize_meeting(file.data.v[index + 1], index)
       IN  /\ made.exc \notin Caught \cup {"none"}
           /\ ret' = made
    /\ pc' = "raised"
    /\ UNCHANGED <<file, index, meetings, call, call2, ret2, threads>>

\* line 58-59: return meetings
ReturnMeetings ==
    /\ pc = "loop"
    /\ index = Len(file.data.v)
    /\ pc' = "returned"
    /\ ret' = Return(JArr(meetings))
    /\ UNCHANGED <<file, index, meetings, call, call2, ret2, threads>>

Next ==
    \/ FileNotFound
    \/ OpenFile
    \/ JsonDecodeError
    \/ JsonLoad
    \/ NotAnArray
    \/ StartLoop
    \/ LoopAppend
    \/ LoopSkip
    \/ LoopRaise
    \/ ReturnMeetings

Spec == Init /\ [][Next]_vars

----------------------------------------------------------------------------
(* Properties of load_archive and normalize_meeting, checked under Spec *)

\* the subsequence of s at the positions in idx, in increasing order
Pick(s, idx) ==
    [k \in 1..Cardinality(idx) |->
        s[CHOOSE i \in idx : Cardinality({j \in idx : j < i}) = k - 1]]

IsArrayFile == file.exists /\ file.valid_json /\ file.data.t = "arr"

\* the record has workgroup, workgroup_id, type and meetingInfo.date, and
\* the date is one a parser reads
Passes(r) ==
    /\ r.t = "obj"
    /\ Truthy(Get(r, "workgroup"))
    /\ Truthy(Get(r, "workgroup_id"))
    /\ Truthy(Get(r, "type"))
    /\ Get(r, "meetingInfo").t = "obj"
    /\ Truthy(Get(Get(r, "meetingInfo"), "date"))
    /\ \E p \in ParseableDates : p[1] = Get(Get(r, "meetingInfo"), "date").v

\* the pair <<record, 0-based position>> for every element of the archive
Indexed(a) == [i \in 1..Len(a) |-> [raw |-> a[i], at |-> i - 1]]

\* meeting m is the Meeting of the record e.raw found at position e.at
MeetingOf(m, e) ==
    /\ m.workgroup = Get(e.raw, "workgroup")
    /\ m.workgroup_id = Get(e.raw, "workgroup_id")
    /\ m.type = Get(e.raw, "type")
    /\ \E p \in ParseableDates :
        /\ p[1] = Get(Get(e.raw, "meetingInfo"), "date").v
        /\ m.date = JDate(p[2])
    /\ m.id = JStr(Get(e.raw, "workgroup_id").v \o <<"_">>
                     \o Get(Get(e.raw, "meetingInfo"), "date").v \o <<"_">>
                     \o IntToStr(e.at))

\* while load_archive loops and when it returns, its list holds exactly one
\* Meeting per record that passes normalization among the elements seen so
\* far, in source-array order (records with a missing required field or an
\* unparseable date leave no trace)
LoadedInOrder ==
    /\ pc \in {"loop", "returned"} =>
        LET seen == Indexed(SubSeq(file.data.v, 1, index))
            kept == Pick(seen, {i \in 1..Len(seen) : Passes(seen[i].raw)})
        IN  /\ Len(meetings) = Len(kept)
            /\ \A k \in 1..Len(kept) : MeetingOf(meetings[k], kept[k])
    /\ pc = "returned" =>
        /\ index = Len(file.data.v)
        /\ ret = Return(JArr(meetings))

\* C1: for any JSON array of records (objects), load_archive returns exactly
\* one Meeting per record that passes normalization, in source-array order:
\* it does not raise, and its list is loaded in order.
C1_OneMeetingPerPassingRecord ==
    (IsArrayFile /\ \A r \in Range(file.data.v) : r.t = "obj")
        => (pc # "raised" /\ LoadedInOrder)

\* C2: for an archive whose top-level value is an array, no exception raised
\* for an individual element reaches the caller of load_archive.
C2_RecordErrorsNeverEscape == IsArrayFile => pc # "raised"

Collections ==
    {"people_present", "working_docs", "action_items", "decisions",
     "discussion_points", "topics_covered", "emotions"}

\* C3: every Meeting in load_archive's list (each one returned by
\* normalize_meeting) has a non-empty id, workgroup, workgroup_id and type, a
\* parsed date, and a list for each of its seven collections; when
\* load_archive raises, the caller receives no Meeting at all.
C3_MeetingsAreComplete ==
    /\ \A m \in Range(meetings) :
        /\ m.id.t = "str" /\ Truthy(m.id)
        /\ Truthy(m.workgroup)
        /\ Truthy(m.workgroup_id)
        /\ Truthy(m.type)
        /\ m.date.t = "date"
        /\ \A c \in Collections : m[c].t = "arr"
    /\ pc = "returned" => ret.val = JArr(meetings)
    /\ pc # "returned" => ret.val = JNull

\* C4: a missing file ends load_archive with FileNotFoundError, content that
\* is not JSON with JSONDecodeError, a top-level value that is not an array
\* with ValueError; in each case the caller gets the exception and no list.
C4_ArchiveLevelErrors ==
    /\ (~file.exists /\ pc # "start") =>
        pc = "raised" /\ ret.exc = "FileNotFoundError"
    /\ (file.exists /\ ~file.valid_json /\ pc \notin {"start", "opened"}) =>
        pc = "raised" /\ ret.exc = "JSONDecodeError"
    /\ (file.exists /\ file.valid_json /\ file.data.t # "arr"
          /\ pc \notin {"start", "opened", "parsed"}) =>
        pc = "raised" /\ ret.exc = "ValueError"
    /\ ~IsArrayFile => pc \notin {"loop", "returned"}
    /\ pc = "raised" => ret.val = JNull /\ ret.exc # "none"

\* C4 witness: the load of a file whose top-level value is an object has
\* failed
C4_Witness ==
    /\ pc = "raised"
    /\ file.exists /\ file.valid_json /\ file.data.t = "obj"
    /\ ret.exc = "ValueError"

----------------------------------------------------------------------------
(* Direct construction of ActionItem and Decision (as tests/unit/test_models.py
   does), specification SpecModels *)

StatusInputs ==
    { JNull, JStr(<<>>),
      JStr(<<"t","o","d","o">>),
      JStr(<<"T","o","-","D","o">>),
      JStr(<<"t","o"," ","d","o">>),
      JStr(<<"T","O"," ","D","O">>),
      JStr(<<"t","o","_","d","o">>),
      JStr(<<"i","n"," ","p","r","o","g","r","e","s","s">>),
      JStr(<<"I","n","-","P","r","o","g","r","e","s","s">>),
      JStr(<<"i","n","p","r","o","g","r","e","s","s">>),
      JStr(<<"i","n","_","p","r","o","g","r","e","s","s">>),
      JStr(<<"I","N","_","P","R","O","G","R","E","S","S">>),
      JStr(<<"d","o","n","e">>),
      JStr(<<" ","D","O","N","E"," ">>),
      JStr(<<"C","o","m","p","l","e","t","e","d">>),
      JStr(<<"c","o","m","p","l","e","t","e">>),
      JStr(<<"c","a","n","c","e","l","l","e","d">>),
      JStr(<<"C","a","n","c","e","l","e","d">>),
      JStr(<<"C","A","N","C","E","L","L","E","D">>),
      JStr(<<"b","l","o","c","k","e","d">>),
      JStr(<<"w","i","p">>),
      JStr(<<" "," ">>) }

EffectInputs ==
    { JNull, JStr(<<>>),
      JStr(s_affectsOnlyThisWorkgroup),
      JStr(s_mayAffectOtherPeople),
      JStr(n_MAY),
      JStr(s_affectsonlythisworkgroup),
      JStr(<<"A","f","f","e","c","t","s","O","n","l","y",
             "T","h","i","s","W","o","r","k","g","r","o","u","p">>),
      JStr(<<" ">> \o s_mayAffectOtherPeople),
      JStr(s_mayAffectOtherPeople \o <<" ">>),
      JStr(n_bogus),
      JStr(<<" "," ">>) }

TextInputs == {JNull, JStr(<<>>), JStr(n_blank), JStr(n_fix), JStr(n_write)}

AssigneeInputs == {JNull, JStr(n_Alice_sp)}

NoFile == [exists |-> FALSE, valid_json |-> FALSE, data |-> JNull]

InitModels ==
    /\ file = NoFile
    /\ pc = "models"
    /\ index = 0
    /\ meetings = <<>>
    /\ call = NoCall
    /\ ret = Pending
    /\ call2 = NoCall
    /\ ret2 = Pending
    /\ threads = <<>>

\* ActionItem(id="a1", meeting_id="m1", workgroup=..., date=..., text=...,
\*            status=..., assignee=...)
NewActionItem ==
    /\ pc = "models"
    /\ \E text \in TextInputs, status \in StatusInputs, assignee \in AssigneeInputs :
        /\ call' = [op |-> "ActionItem", text |-> text, status |-> status,
                    assignee |-> assignee]
        /\ ret' = ActionItem(JStr(<<"a","1">>), JStr(<<"m","1">>), JStr(n_Gov),
                             JDate(15), text, status, assignee, JNull)
    /\ UNCHANGED <<file, pc, index, meetings, call2, ret2, threads>>

\* Decision(id="d1", meeting_id="m1", workgroup=..., date=...,
\*          decision_text=..., effect=...)
NewDecision ==
    /\ pc = "models"
    /\ \E text \in TextInputs, effect \in EffectInputs :
        /\ call' = [op |-> "Decision", text |-> text, effect |-> effect]
        /\ ret' = Decision(JStr(<<"d","1">>), JStr(<<"m","1">>), JStr(n_Gov),
                           JDate(15), text, effect, JNull, JNull)
    /\ UNCHANGED <<file, pc, index, meetings, call2, ret2, threads>>

NextModels ==
    \/ NewActionItem
    \/ NewDecision

SpecModels == InitModels /\ [][NextModels]_vars

\* the string has a character that is not whitespace
NonBlank(x) == x.t = "str" /\ \E i \in 1..Len(x.v) : x.v[i] \notin Whitespace

\* the synonyms the claim names, in lower case, with their canonical status
KnownSynonyms ==
    { <<s_todo, s_todo>>, <<s_to_do_sp, s_todo>>, <<s_to_do_hy, s_todo>>,
      <<s_in_progress, s_in_progress>>, <<s_in_progress_hy, s_in_progress>>,
      <<s_inprogress, s_in_progress>>, <<s_in_progress_us, s_in_progress>>,
      <<s_done, s_done>>, <<s_completed, s_done>>, <<s_complete, s_done>>,
      <<s_cancelled, s_cancelled>>, <<s_canceled, s_cancelled>> }

\* x and y are the same string up to letter case and surrounding whitespace
SameWord(x, y) == Lower(Strip(x)) = Lower(Strip(y))

\* C5: an ActionItem is constructed exactly when its text is not blank,
\* whatever the status; its status is then one of the four canonical values:
\* the canonical value of the known synonym the input spells (in any letter
\* case), and "todo" for every other input, None and "" included.
C5_StatusAlwaysCanonical ==
    call.op = "ActionItem" =>
        /\ ret.exc = "none" <=> NonBlank(call.text)
        /\ ret.exc # "none" => ret.exc = "ValueError"
        /\ ret.exc = "none" =>
            /\ ret.val.status \in valid_statuses
            /\ \A p \in KnownSynonyms :
                (call.status.t = "str" /\ SameWord(call.status.v, p[1]))
                    => ret.val.status = p[2]
            /\ (call.status.t # "str"
                  \/ \A p \in KnownSynonyms : ~SameWord(call.status.v, p[1]))
                    => ret.val.status = s_todo
            /\ call.status = JStr(n_ToDo) => ret.val.status = s_todo
            /\ call.status = JStr(s_in_progress_us) => ret.val.status = s_in_progress
            /\ call.status = JStr(n_Completed) => ret.val.status = s_done
            /\ call.status = JStr(<<"C","a","n","c","e","l","e","d">>)
                 => ret.val.status = s_cancelled

\* C5 witness: an ActionItem with an unrecognized status was constructed and
\* has status "todo"
C5_Witness ==
    /\ call.op = "ActionItem"
    /\ call.status = JStr(<<"b","l","o","c","k","e","d">>)
    /\ ret.exc = "none"
    /\ ret.val.status = s_todo

\* C6: a Decision is constructed exactly when its text is not blank and its
\* effect is missing, empty or one of the two canonical strings up to letter
\* case; the stored effect is then the canonical spelling (the default
\* "affectsOnlyThisWorkgroup" for a missing or empty effect); every other
\* construction fails with ValueError.
C6_EffectCanonicalOrRejected ==
    call.op = "Decision" =>
        LET canonical == {s_affectsOnlyThisWorkgroup, s_mayAffectOtherPeople}
            matches == {e \in canonical :
                          /\ call.effect.t = "str"
                          /\ Lower(call.effect.v) = Lower(e)}
            accepted == ~Truthy(call.effect) \/ matches # {}
        IN  /\ ret.exc = "none" <=> (NonBlank(call.text) /\ accepted)
            /\ ret.exc # "none" => ret.exc = "ValueError"
            /\ ret.exc = "none" =>
                /\ ret.val.effect \in canonical
                /\ ~Truthy(call.effect) =>
                     ret.val.effect = s_affectsOnlyThisWorkgroup
                /\ Truthy(call.effect) => ret.val.effect \in matches
                /\ NonBlank(JStr(ret.val.decision_text))

\* C6 witness: the effect "MAYAFFECTOTHERPEOPLE" was stored as
\* "mayAffectOtherPeople"
C6_Witness ==
    /\ call.op = "Decision"
    /\ call.effect = JStr(n_MAY)
    /\ ret.exc = "none"
    /\ ret.val.effect = s_mayAffectOtherPeople

----------------------------------------------------------------------------
(* FilterService *)

\* the elements of s whose mask entry is true, in order (df[mask])
RECURSIVE SelectByMask(_, _)
SelectByMask(s, mask) ==
    IF s = <<>> THEN <<>>
    ELSE (IF Head(mask) THEN <<Head(s)>> ELSE <<>>)
         \o SelectByMask(Tail(s), Tail(mask))

\* [normalize_topic(t) for t in topics]
NormalizeTopics(topics) == [i \in 1..Len(topics) |-> normalize_topic(topics[i])]

\* has_matching_tag(topics_list), closed over normalized_tags
has_matching_tag(topics_list, normalized_tags) ==
    IF topics_list = <<>> THEN FALSE
    ELSE LET normalized_topics == NormalizeTopics(topics_list)
         IN  \E k \in 1..Len(normalized_tags) :
                normalized_tags[k] \in Range(normalized_topics)

\* a tag filter that wants every query tag among the meeting's topics
has_every_tag(topics_list, normalized_tags) ==
    IF topics_list = <<>> THEN FALSE
    ELSE LET normalized_topics == NormalizeTopics(topics_list)
         IN  \A k \in 1..Len(normalized_tags) :
                normalized_tags[k] \in Range(normalized_topics)

\* a filter_meetings whose end bound is exclusive
FilterMeetingsEndExclusive(ms, workgroup, start_date, end_date, tags) ==
    IF ms = <<>> THEN <<>>
    ELSE SelectByMask(ms,
            [i \in 1..Len(ms) |->
                /\ Truthy(workgroup) => ms[i].workgroup = workgroup
                /\ Truthy(start_date) => ms[i].date.v >= start_date.v
                /\ Truthy(end_date) => ms[i].date.v < end_date.v
                /\ Truthy(tags) =>
                     has_matching_tag(ms[i].topics_covered.v,
                                      NormalizeTopics(tags.v))])

\* a filter_meetings that wants every query tag (AND within the tag list)
FilterMeetingsEveryTag(ms, workgroup, start_date, end_date, tags) ==
    IF ms = <<>> THEN <<>>
    ELSE SelectByMask(ms,
            [i \in 1..Len(ms) |->
                /\ Truthy(workgroup) => ms[i].workgroup = workgroup
                /\ Truthy(start_date) => ms[i].date.v >= start_date.v
                /\ Truthy(end_date) => ms[i].date.v <= end_date.v
                /\ Truthy(tags) =>
                     has_every_tag(ms[i].topics_covered.v,
                                   NormalizeTopics(tags.v))])

\* FilterService.filter_meetings(meetings, workgroup, start_date, end_date, tags)
filter_meetings(ms, workgroup, start_date, end_date, tags) ==
    IF ms = <<>> THEN <<>>
    ELSE
    LET n == Len(ms)
        mask0 == [i \in 1..n |-> TRUE]
        mask1 == IF Truthy(workgroup)
                 THEN [i \in 1..n |-> mask0[i] /\ ms[i].workgroup = workgroup]
                 ELSE mask0
        mask2 == IF Truthy(start_date)
                 THEN [i \in 1..n |-> mask1[i] /\ ms[i].date.v >= start_date.v]
                 ELSE mask1
        mask3 == IF Truthy(end_date)
                 THEN [i \in 1..n |-> mask2[i] /\ ms[i].date.v <= end_date.v]
                 ELSE mask2
        mask4 == IF Truthy(tags)
                 THEN LET normalized_tags == NormalizeTopics(tags.v)
                      IN  [i \in 1..n |->
                              mask3[i] /\ has_matching_tag(ms[i].topics_covered.v,
                                                           normalized_tags)]
                 ELSE mask3
    IN  SelectByMask(ms, mask4)

\* a filter_decisions whose start bound is exclusive
FilterDecisionsStartExclusive(decisions, workgroup, start_date, end_date) ==
    LET WorkgroupIs(d) == d.workgroup = workgroup
        NotBefore(d) == d.date.v > start_date.v
        NotAfter(d) == d.date.v <= end_date.v
        f1 == IF Truthy(workgroup) THEN SelectSeq(decisions, WorkgroupIs)
              ELSE decisions
        f2 == IF Truthy(start_date) THEN SelectSeq(f1, NotBefore) ELSE f1
    IN  IF Truthy(end_date) THEN SelectSeq(f2, NotAfter) ELSE f2

\* FilterService.filter_decisions(decisions, workgroup, start_date, end_date)
filter_decisions(decisions, workgroup, start_date, end_date) ==
    IF decisions = <<>> THEN <<>>
    ELSE
    LET WorkgroupIs(d) == d.workgroup = workgroup
        NotBefore(d) == d.date.v >= start_date.v
        NotAfter(d) == d.date.v <= end_date.v
        f1 == IF Truthy(workgroup) THEN SelectSeq(decisions, WorkgroupIs)
              ELSE decisions
        f2 == IF Truthy(start_date) THEN SelectSeq(f1, NotBefore) ELSE f1
        f3 == IF Truthy(end_date) THEN SelectSeq(f2, NotAfter) ELSE f2
    IN  f3

\* a filter_action_items whose end bound is exclusive
FilterActionItemsEndExclusive(action_items, workgroup, assignee, status, start_date, end_date) ==
    LET WorkgroupIs(a) == a.workgroup = workgroup
        AssigneeIs(a) == a.assignee = assignee
        StatusIs(a) == JStr(a.status) = status
        NotBefore(a) == a.date.v >= start_date.v
        Before(a) == a.date.v < end_date.v
        f1 == IF Truthy(workgroup) THEN SelectSeq(action_items, WorkgroupIs)
              ELSE action_items
        f2 == IF Truthy(assignee) THEN SelectSeq(f1, AssigneeIs) ELSE f1
        f3 == IF Truthy(status) THEN SelectSeq(f2, StatusIs) ELSE f2
        f4 == IF Truthy(start_date) THEN SelectSeq(f3, NotBefore) ELSE f3
    IN  IF Truthy(end_date) THEN SelectSeq(f4, Before) ELSE f4

\* FilterService.filter_action_items(action_items, workgroup, assignee, status,
\*                                   start_date, end_date)
filter_action_items(action_items, workgroup, assignee, status, start_date, end_date) ==
    IF action_items = <<>> THEN <<>>
    ELSE
    LET WorkgroupIs(a) == a.workgroup = workgroup
        AssigneeIs(a) == a.assignee = assignee
        StatusIs(a) == JStr(a.status) = status
        NotBefore(a) == a.date.v >= start_date.v
        NotAfter(a) == a.date.v <= end_date.v
        f1 == IF Truthy(workgroup) THEN SelectSeq(action_items, WorkgroupIs)
              ELSE action_items
        f2 == IF Truthy(assignee) THEN SelectSeq(f1, AssigneeIs) ELSE f1
        f3 == IF Truthy(status) THEN SelectSeq(f2, StatusIs) ELSE f2
        f4 == IF Truthy(start_date) THEN SelectSeq(f3, NotBefore) ELSE f3
        f5 == IF Truthy(end_date) THEN SelectSeq(f4, NotAfter) ELSE f4
    IN  f5

----------------------------------------------------------------------------
(* AggregationService *)

\* an aggregate_decisions that keeps only the first decision of each meeting
AggregateFirstDecisions(ms) ==
    LET RECURSIVE Firsts(_)
        Firsts(rest) ==
            IF rest = <<>> THEN <<>>
            ELSE (IF Truthy(Head(rest).decisions)
                  THEN <<Head(Head(rest).decisions.v)>> ELSE <<>>)
                 \o Firsts(Tail(rest))
    IN  Firsts(ms)

\* AggregationService.aggregate_decisions(meetings)
aggregate_decisions(ms) ==
    LET RECURSIVE Extend(_)
        Extend(rest) ==
            IF rest = <<>> THEN <<>>
            ELSE (IF Truthy(Head(rest).decisions)
                  THEN Head(rest).decisions.v ELSE <<>>)
                 \o Extend(Tail(rest))
    IN  IF ms = <<>> THEN <<>> ELSE Extend(ms)

\* AggregationService.aggregate_action_items(meetings)
aggregate_action_items(ms) ==
    LET RECURSIVE Extend(_)
        Extend(rest) ==
            IF rest = <<>> THEN <<>>
            ELSE (IF Truthy(Head(rest).action_items)
                  THEN Head(rest).action_items.v ELSE <<>>)
                 \o Extend(Tail(rest))
    IN  IF ms = <<>> THEN <<>> ELSE Extend(ms)

----------------------------------------------------------------------------
(* The services applied to a loaded collection, specification SpecServices:
   load_archive runs on an archive, then one service is called on the
   returned meetings, then a filter may be called again on what the first
   filter returned *)

\* the archives behind the collections: the four well-formed records and
\* one with an unparseable date
ServiceRecords ==
    GoodRecords
    \cup {RawMeeting(n_Gov, n_g1, << <<"meetingInfo", InfoWithDate(d_bad)>> >>)}

WorkgroupCriteria == {JNull, JStr(<<>>), JStr(n_Gov), JStr(n_Edu)}
StartCriteria == {JNull, JDate(10), JDate(15)}
EndCriteria == {JNull, JDate(15), JDate(20)}
TagCriteria ==
    {JNull, JArr(<<>>), JArr(<<n_ai>>), JArr(<<n_ai, n_GOV_sp>>), JArr(<<n_zzz>>)}
AssigneeCriteria == {JNull, JStr(n_Alice), JStr(n_Bob)}
StatusCriteria == {JNull, JStr(s_todo), JStr(s_done)}

Criteria(op, workgroup, start_date, end_date, tags, assignee, status) ==
    [op |-> op, workgroup |-> workgroup, start_date |-> start_date,
     end_date |-> end_date, tags |-> tags, assignee |-> assignee,
     status |-> status]

MeetingCriteria ==
    {Criteria("filter_meetings", w, s, e, t, JNull, JNull) :
        w \in WorkgroupCriteria, s \in StartCriteria, e \in EndCriteria,
        t \in TagCriteria}

DecisionCriteria ==
    {Criteria("filter_decisions", w, s, e, JNull, JNull, JNull) :
        w \in WorkgroupCriteria, s \in StartCriteria, e \in EndCriteria}

ActionItemCriteria ==
    {Criteria("filter_action_items", w, s, e, JNull, a, st) :
        w \in WorkgroupCriteria, s \in {JNull, JDate(15)},
        e \in {JNull, JDate(15)}, a \in AssigneeCriteria, st \in StatusCriteria}

\* the filter call c applied to the list xs
ApplyFilter(c, xs) ==
    CASE c.op = "filter_meetings" ->
            filter_meetings(xs, c.workgroup, c.start_date, c.end_date, c.tags)
      [] c.op = "filter_decisions" ->
            filter_decisions(xs, c.workgroup, c.start_date, c.end_date)
      [] c.op = "filter_action_items" ->
            filter_action_items(xs, c.workgroup, c.assignee, c.status,
                                c.start_date, c.end_date)

\* the list the first call is made on: the loaded meetings, or their
\* aggregated decisions or action items
InputOf(op) ==
    CASE op = "filter_meetings" -> meetings
      [] op = "filter_decisions" -> aggregate_decisions(meetings)
      [] op = "filter_action_items" -> aggregate_action_items(meetings)

\* criteria c2 are equal to or looser than c1: each criterion is dropped,
\* kept, or widened (earlier start, later end, more tags)
Looser(c1, c2) ==
    /\ c2.op = c1.op
    /\ ~Truthy(c2.workgroup)
         \/ (Truthy(c1.workgroup) /\ c2.workgroup = c1.workgroup)
    /\ ~Truthy(c2.assignee)
         \/ (Truthy(c1.assignee) /\ c2.assignee = c1.assignee)
    /\ ~Truthy(c2.status)
         \/ (Truthy(c1.status) /\ c2.status = c1.status)
    /\ ~Truthy(c2.start_date)
         \/ (Truthy(c1.start_date) /\ c2.start_date.v <= c1.start_date.v)
    /\ ~Truthy(c2.end_date)
         \/ (Truthy(c1.end_date) /\ c2.end_date.v >= c1.end_date.v)
    /\ ~Truthy(c2.tags)
         \/ (Truthy(c1.tags) /\ Range(c1.tags.v) \subseteq Range(c2.tags.v))

InitServices ==
    /\ file \in {[exists |-> TRUE, valid_json |-> TRUE, data |-> JArr(a)] :
                    a \in SeqsUpTo(ServiceRecords, MaxMeetings)}
    /\ pc = "start"
    /\ index = 0
    /\ meetings = <<>>
    /\ call = [op |-> "load_archive"]
    /\ ret = Pending
    /\ call2 = NoCall
    /\ ret2 = Pending
    /\ threads = <<>>

Filters == {"filter_meetings", "filter_decisions", "filter_action_items"}

\* filter_service.filter_meetings(meetings, ...)
FilterMeetings ==
    /\ pc = "returned" /\ call.op = "load_archive"
    /\ \E c \in MeetingCriteria :
        /\ call' = c
        /\ ret' = Return(ApplyFilter(c, meetings))
    /\ UNCHANGED <<file, pc, index, meetings, call2, ret2, threads>>

\* filter_service.filter_decisions(aggregate_decisions(meetings), ...)
FilterDecisions ==
    /\ pc = "returned" /\ call.op = "load_archive"
    /\ \E c \in DecisionCriteria :
        /\ call' = c
        /\ ret' = Return(ApplyFilter(c, aggregate_decisions(meetings)))
    /\ UNCHANGED <<file, pc, index, meetings, call2, ret2, threads>>

\* filter_service.filter_action_items(aggregate_action_items(meetings), ...)
FilterActionItems ==
    /\ pc = "returned" /\ call.op = "load_archive"
    /\ \E c \in ActionItemCriteria :
        /\ call' = c
        /\ ret' = Return(ApplyFilter(c, aggregate_action_items(meetings)))
    /\ UNCHANGED <<file, pc, index, meetings, call2, ret2, threads>>

\* the same filter called on the result of the first call, with criteria
\* equal to or looser than the first call's
FilterAgain ==
    /\ pc = "returned" /\ call.op \in Filters /\ call2.op = "none"
    /\ \E c \in {x \in MeetingCriteria \cup DecisionCriteria
                          \cup ActionItemCriteria : Looser(call, x)} :
        /\ call2' = c
        /\ ret2' = Return(ApplyFilter(c, ret.val))
    /\ UNCHANGED <<file, pc, index, meetings, call, ret, threads>>

\* aggregation_service.aggregate_decisions(meetings)
AggregateDecisions ==
    /\ pc = "returned" /\ call.op = "load_archive"
    /\ call' = [op |-> "aggregate_decisions"]
    /\ ret' = Return(aggregate_decisions(meetings))
    /\ UNCHANGED <<file, pc, index, meetings, call2, ret2, threads>>

\* aggregation_service.aggregate_action_items(meetings)
AggregateActionItems ==
    /\ pc = "returned" /\ call.op = "load_archive"
    /\ call' = [op |-> "aggregate_action_items"]
    /\ ret' = Return(aggregate_action_items(meetings))
    /\ UNCHANGED <<file, pc, index, meetings, call2, ret2, threads>>

NextServices ==
    \/ OpenFile
    \/ JsonLoad
    \/ StartLoop
    \/ LoopAppend
    \/ LoopSkip
    \/ ReturnMeetings
    \/ FilterMeetings
    \/ FilterDecisions
    \/ FilterActionItems
    \/ FilterAgain
    \/ AggregateDecisions
    \/ AggregateActionItems

SpecServices == InitServices /\ [][NextServices]_vars

----------------------------------------------------------------------------
(* Properties of the services, checked under SpecServices *)

\* a criterion is supplied unless it is None, "" or []
Supplied(x) == x # JNull /\ x # JStr(<<>>) /\ x # JArr(<<>>)

\* the topic and the query tag agree after trimming and lower-casing
SameTopic(topic, tag) == Lower(Strip(topic)) = Lower(Strip(tag))

MeetingSatisfies(m, c) ==
    /\ Supplied(c.workgroup) => m.workgroup = c.workgroup
    /\ Supplied(c.start_date) => m.date.v >= c.start_date.v
    /\ Supplied(c.end_date) => m.date.v <= c.end_date.v
    /\ Supplied(c.tags) =>
        \E i \in 1..Len(m.topics_covered.v), k \in 1..Len(c.tags.v) :
            SameTopic(m.topics_covered.v[i], c.tags.v[k])

\* C7: filter_meetings returns exactly the meetings of its input that satisfy
\* every supplied criterion (workgroup equality, start <= date <= end, some
\* topic equal to some query tag after trimming and lower-casing), in input
\* order, and never raises; a criterion that is not supplied excludes nothing.
C7_FilterMeetingsSelects ==
    call.op = "filter_meetings" =>
        /\ ret.exc = "none"
        /\ ret.val = Pick(meetings,
                          {i \in 1..Len(meetings) :
                              MeetingSatisfies(meetings[i], call)})

\* C7 witness: of two meetings dated day 1 and day 15, the range [15, 15]
\* kept exactly the second
C7_Witness ==
    /\ call.op = "filter_meetings"
    /\ call.start_date = JDate(15) /\ call.end_date = JDate(15)
    /\ Len(meetings) = 2
    /\ meetings[1].date = JDate(1) /\ meetings[2].date = JDate(15)
    /\ ret.val = <<meetings[2]>>

ItemSatisfies(x, c) ==
    /\ Supplied(c.workgroup) => x.workgroup = c.workgroup
    /\ Supplied(c.start_date) => x.date.v >= c.start_date.v
    /\ Supplied(c.end_date) => x.date.v <= c.end_date.v
    /\ (c.op = "filter_action_items" /\ Supplied(c.assignee)) =>
        x.assignee = c.assignee
    /\ (c.op = "filter_action_items" /\ Supplied(c.status)) =>
        x.status = c.status.v

\* C8: filter_decisions and filter_action_items return exactly the items of
\* their input that satisfy every supplied criterion, in input order; an item
\* without an assignee is never returned under an assignee criterion; with no
\* criterion supplied the result is the input list.
C8_FilterItemsSelects ==
    call.op \in {"filter_decisions", "filter_action_items"} =>
        LET input == InputOf(call.op)
        IN  /\ ret.exc = "none"
            /\ ret.val = Pick(input, {i \in 1..Len(input) :
                                         ItemSatisfies(input[i], call)})
            /\ (call.op = "filter_action_items" /\ Supplied(call.assignee)) =>
                \A i \in 1..Len(ret.val) : ret.val[i].assignee # JNull
            /\ (\A k \in {"workgroup", "start_date", "end_date", "assignee",
                          "status"} : ~Supplied(call[k]))
                => ret.val = input

\* C8 witness: an assignee criterion kept the assigned action item and
\* dropped one that has no assignee
C8_Witness ==
    /\ call.op = "filter_action_items"
    /\ call.assignee = JStr(n_Alice)
    /\ Len(ret.val) = 1
    /\ \E i \in 1..Len(InputOf(call.op)) : InputOf(call.op)[i].assignee = JNull

\* C9: a filter called on the result of the same filter with criteria equal
\* to or looser than the first call's returns that result unchanged.
C9_LooserFilterAbsorbed ==
    (call2.op \in Filters /\ Looser(call, call2)) => ret2 = ret

\* C9 witness: a tag filter removed a meeting and kept one, and the second
\* call, with a superset of the tags, was made on the result
C9_Witness ==
    /\ call.op = "filter_meetings" /\ call2.op = "filter_meetings"
    /\ call.tags = JArr(<<n_ai>>) /\ call2.tags = JArr(<<n_ai, n_GOV_sp>>)
    /\ Len(ret.val) = 1 /\ Len(meetings) = 2
    /\ ret2.exc = "none"

\* the list ys is the concatenation of the lists xs[1], ..., xs[n]
IsConcatenation(ys, xs) ==
    LET offset[i \in 0..Len(xs)] ==
            IF i = 0 THEN 0 ELSE offset[i - 1] + Len(xs[i])
    IN  /\ Len(ys) = offset[Len(xs)]
        /\ \A i \in 1..Len(xs) : \A j \in 1..Len(xs[i]) :
              ys[offset[i - 1] + j] = xs[i][j]

\* C10: aggregate_decisions and aggregate_action_items return the
\* concatenation of the meetings' lists in meeting order and item order: the
\* length is the sum of the lengths and every item is at its place, unchanged.
C10_AggregateConcatenates ==
    /\ call.op = "aggregate_decisions" =>
        /\ ret.exc = "none"
        /\ IsConcatenation(ret.val,
              [i \in 1..Len(meetings) |-> meetings[i].decisions.v])
    /\ call.op = "aggregate_action_items" =>
        /\ ret.exc = "none"
        /\ IsConcatenation(ret.val,
              [i \in 1..Len(meetings) |-> meetings[i].action_items.v])

\* C10 witness: three meetings' worth of decisions were aggregated from a
\* meeting with two decisions and a meeting with one
C10_Witness ==
    /\ call.op = "aggregate_decisions"
    /\ Len(meetings) = 2
    /\ Len(meetings[1].decisions.v) = 2
    /\ Len(meetings[2].decisions.v) = 1
    /\ ret.val = meetings[1].decisions.v \o meetings[2].decisions.v

----------------------------------------------------------------------------
(* Person and extract_all_people *)

\* Person(name), name a non-blank str
Person(name) ==
    [name |-> Strip(name),
     workgroups |-> {},
     meetings_attended |-> <<>>,
     action_items_assigned |-> <<>>,
     roles |-> [w \in {} |-> <<>>]]

\* list.append(x) unless x is in the list already
AppendNew(list, x) == IF x \in Range(list) THEN list ELSE Append(list, x)

\* a person whose roles in a workgroup are replaced by the latest one
AddWorkgroupLatestRole(person, workgroup_id, role) ==
    [person EXCEPT
        !.workgroups = @ \cup {workgroup_id},
        !.roles = [w \in DOMAIN @ \cup {workgroup_id} |->
                      IF w = workgroup_id THEN <<role>> ELSE @[w]]]

\* Person.add_workgroup(workgroup_id, role)
add_workgroup(person, workgroup_id, role) ==
    [person EXCEPT
        !.workgroups = @ \cup {workgroup_id},
        !.roles = [w \in DOMAIN @ \cup {workgroup_id} |->
                      IF w # workgroup_id THEN @[w]
                      ELSE IF w \in DOMAIN @ THEN AppendNew(@[w], role)
                      ELSE <<role>>]]

\* a person whose list of meetings takes an id once per role
AddMeetingPerRole(person, meeting_id) ==
    [person EXCEPT !.meetings_attended = Append(@, meeting_id)]

\* Person.add_meeting(meeting_id)
add_meeting(person, meeting_id) ==
    [person EXCEPT !.meetings_attended = AppendNew(@, meeting_id)]

\* a person who keeps only the first action item recorded
AddActionItemFirstOnly(person, action_item_id) ==
    [person EXCEPT !.action_items_assigned =
                        IF @ = <<>> THEN <<action_item_id>> ELSE @]

\* Person.add_action_item(action_item_id)
add_action_item(person, action_item_id) ==
    [person EXCEPT !.action_items_assigned = AppendNew(@, action_item_id)]

\* _get_or_create_person(people_dict, name): the dictionary with the person
\* in it
_get_or_create_person(people_dict, name) ==
    IF name \in DOMAIN people_dict THEN people_dict
    ELSE [n \in DOMAIN people_dict \cup {name} |->
             IF n = name THEN Person(name) ELSE people_dict[n]]

\* the names extract_all_people visits in one meeting, in the order of the
\* code: host, documenter, each of people_present, each action item's
\* assignee; item is the action item's id, or JNull
VisitsOf(meeting) ==
    (IF Truthy(meeting.host)
     THEN <<[raw |-> meeting.host.v, role |-> "host", item |-> JNull]>>
     ELSE <<>>)
    \o (IF Truthy(meeting.documenter)
        THEN <<[raw |-> meeting.documenter.v, role |-> "documenter",
                item |-> JNull]>>
        ELSE <<>>)
    \o [i \in 1..Len(meeting.people_present.v) |->
           [raw |-> meeting.people_present.v[i], role |-> "participant",
            item |-> JNull]]
    \o LET assigned == SelectSeq(meeting.action_items.v,
                                 LAMBDA a : Truthy(a.assignee))
       IN  [i \in 1..Len(assigned) |->
               [raw |-> assigned[i].assignee.v, role |-> "participant",
                item |-> assigned[i].id]]

\* one visit: normalize the name and, unless it is empty, record the
\* workgroup id with the role, the meeting and the action item
Visit(people_dict, meeting, visit) ==
    LET person_name == normalize_name(visit.raw)
    IN  IF person_name = <<>> THEN people_dict
        ELSE LET dict == _get_or_create_person(people_dict, person_name)
                 p1 == add_workgroup(dict[person_name],
                                     meeting.workgroup_id.v, visit.role)
                 p2 == add_meeting(p1, meeting.id.v)
                 p3 == IF visit.item = JNull THEN p2
                       ELSE add_action_item(p2, visit.item.v)
             IN  [dict EXCEPT ![person_name] = p3]

RECURSIVE VisitAll(_, _, _)
VisitAll(people_dict, meeting, visits) ==
    IF visits = <<>> THEN people_dict
    ELSE VisitAll(Visit(people_dict, meeting, Head(visits)), meeting,
                  Tail(visits))

\* extract_all_people(meetings), continued from people_dict
RECURSIVE ExtractPeopleFrom(_, _)
ExtractPeopleFrom(people_dict, ms) ==
    IF ms = <<>> THEN people_dict
    ELSE ExtractPeopleFrom(VisitAll(people_dict, Head(ms), VisitsOf(Head(ms))),
                           Tail(ms))

\* extract_all_people(meetings): name -> Person
extract_all_people(ms) == ExtractPeopleFrom([n \in {} |-> Person(<<>>)], ms)

----------------------------------------------------------------------------
(* Topic extractor *)

\* the characters of the model in code-point order, which is the order
\* Python compares str by
CodePoints ==
    <<" ", ",", "-">> \o Digit \o UpperCase \o <<"[", "]", "_">> \o LowerCase

CodePoint(c) == CHOOSE i \in 1..Len(CodePoints) : CodePoints[i] = c

\* a < b for two str
RECURSIVE StrLess(_, _)
StrLess(a, b) ==
    IF b = <<>> THEN FALSE
    ELSE IF a = <<>> THEN TRUE
    ELSE IF Head(a) # Head(b) THEN CodePoint(Head(a)) < CodePoint(Head(b))
    ELSE StrLess(Tail(a), Tail(b))

\* sorted(list(set_of_str))
RECURSIVE Sorted(_)
Sorted(S) ==
    IF S = {} THEN <<>>
    ELSE LET least == CHOOSE x \in S : \A y \in S \ {x} : StrLess(x, y)
         IN  <<least>> \o Sorted(S \ {least})

\* the topics of every meeting, folded to lower case before they are
\* collected
ExtractAllTopicsFolded(ms) ==
    Sorted(UNION {{Lower(t) : t \in Range(ms[i].topics_covered.v)} :
                     i \in 1..Len(ms)})

\* extract_all_topics(meetings)
extract_all_topics(ms) ==
    Sorted(UNION {Range(ms[i].topics_covered.v) : i \in 1..Len(ms)})

\* normalized topics that hold the empty topic when no meeting has a topic
ExtractTopicsNormalizedOrBlank(ms) ==
    LET topics == UNION {{normalize_topic(t) : t \in Range(ms[i].topics_covered.v)} :
                            i \in 1..Len(ms)}
    IN  IF topics = {} THEN {<<>>} ELSE topics

\* extract_topics_normalized(meetings)
extract_topics_normalized(ms) ==
    UNION {{normalize_topic(t) : t \in Range(ms[i].topics_covered.v)} :
              i \in 1..Len(ms)}

----------------------------------------------------------------------------
(* GraphService: a graph is its nodes with their node_type and its edges
   (each the set of its one or two end nodes) with their attributes *)

NoAttrs == [k \in {} |-> 0]
EmptyGraph == [nodes |-> [n \in {} |-> ""], edges |-> [e \in {} |-> NoAttrs]]

\* the display name of the first meeting that has the workgroup id
WorkgroupNameOf(ms, workgroup_id) ==
    LET first == CHOOSE i \in 1..Len(ms) :
                    /\ ms[i].workgroup_id.v = workgroup_id
                    /\ \A j \in 1..(i - 1) : ms[j].workgroup_id.v # workgroup_id
    IN  ms[first].workgroup.v

\* a participation graph with an edge only for the first workgroup of each
\* person's meetings
BuildPeopleFirstWorkgroupOnly(ms) ==
    IF ms = <<>> THEN EmptyGraph
    ELSE
    LET people_dict == extract_all_people(ms)
        workgroups == {ms[i].workgroup.v : i \in 1..Len(ms)}
        links == {{n, ms[1].workgroup.v} : n \in
                    {x \in DOMAIN people_dict :
                        ms[1].workgroup_id.v \in people_dict[x].workgroups}}
    IN  [nodes |-> [n \in workgroups \cup DOMAIN people_dict |->
                       IF n \in DOMAIN people_dict THEN "person"
                       ELSE "workgroup"],
         edges |-> [e \in links |-> NoAttrs]]

\* build_people_workgroups_graph(meetings): the workgroup nodes are added
\* first, so a person of the same name takes the node over
build_people_workgroups_graph(ms) ==
    IF ms = <<>> THEN EmptyGraph
    ELSE
    LET people_dict == extract_all_people(ms)
        workgroups == {ms[i].workgroup.v : i \in 1..Len(ms)}
        links == UNION {{{people_dict[n].name, WorkgroupNameOf(ms, w)} :
                            w \in people_dict[n].workgroups} :
                        n \in DOMAIN people_dict}
    IN  [nodes |-> [n \in workgroups \cup DOMAIN people_dict |->
                       IF n \in DOMAIN people_dict THEN "person"
                       ELSE "workgroup"],
         edges |-> [e \in links |-> NoAttrs]]

\* [t.lower().strip() for t in meeting.topics_covered if t.strip()]
NormalizedTopics(meeting) ==
    LET kept == SelectSeq(meeting.topics_covered.v,
                          LAMBDA t : Strip(t) # <<>>)
    IN  [i \in 1..Len(kept) |-> Strip(Lower(kept[i]))]

\* the pairs (topic1, topic2) the two nested loops visit in one meeting, as
\* the number of them that join the ends of edge e
PairsOn(normalized_topics, e) ==
    Cardinality({p \in (1..Len(normalized_topics)) \X (1..Len(normalized_topics)) :
                    /\ p[1] < p[2]
                    /\ {normalized_topics[p[1]], normalized_topics[p[2]]} = e})

\* topic_cooccurrences[edge] after the loop over the meetings
RECURSIVE Cooccurrences(_, _)
Cooccurrences(ms, e) ==
    IF ms = <<>> THEN 0
    ELSE PairsOn(NormalizedTopics(Head(ms)), e) + Cooccurrences(Tail(ms), e)

\* build_topic_cooccurrence_graph(meetings)
build_topic_cooccurrence_graph(ms) ==
    LET topics == UNION {Range(NormalizedTopics(ms[i])) : i \in 1..Len(ms)}
        links == {e \in {{a, b} : a \in topics, b \in topics} :
                     Cooccurrences(ms, e) > 0}
    IN  [nodes |-> [n \in topics |-> "topic"],
         edges |-> [e \in links |-> [weight |-> Cooccurrences(ms, e)]]]

\* filter_graph(nx_graph, meetings, workgroup, start_date, end_date)
filter_graph(nx_graph, ms, workgroup, start_date, end_date) ==
    LET by_workgroup ==
            IF Truthy(workgroup)
            THEN SelectSeq(ms, LAMBDA m : m.workgroup = workgroup) ELSE ms
        by_start ==
            IF Truthy(start_date)
            THEN SelectSeq(by_workgroup, LAMBDA m : m.date.v >= start_date.v)
            ELSE by_workgroup
        filtered_meetings ==
            IF Truthy(end_date)
            THEN SelectSeq(by_start, LAMBDA m : m.date.v <= end_date.v)
            ELSE by_start
        node_types == {nx_graph.nodes[n] : n \in DOMAIN nx_graph.nodes}
    IN  IF "person" \in node_types \/ "workgroup" \in node_types
        THEN build_people_workgroups_graph(filtered_meetings)
        ELSE build_topic_cooccurrence_graph(filtered_meetings)

----------------------------------------------------------------------------
(* The extractors and the graph service on a loaded archive, specification
   SpecGraphs *)

n_alice == <<"a","l","i","c","e">>
n_Alice_DAO == <<"A","l","i","c","e"," ","[","D","A","O","]">>
n_people2 == <<"A","l","i","c","e",",","E","d","u">>
n_topics3 == <<"A","I",",","E","d","u">>

\* names that differ in letter case and in a bracket suffix, and an attendee
\* whose name is the workgroup's display name
R_names ==
    RawMeeting(n_Edu, n_e1,
        << <<"meetingInfo",
             JObj(<< <<"date", JStr(d_0201)>>,
                     <<"host", JStr(n_alice)>>,
                     <<"documenter", JStr(n_Alice_DAO)>>,
                     <<"peoplePresent", JStr(n_people2)>> >>)>>,
           <<"tags", JObj(<< <<"topicsCovered", JStr(n_topics3)>> >>)>> >>)

\* a meetingTopics list one of whose elements is blank
R_spaces ==
    RawMeeting(n_Gov, n_g1,
        << <<"meetingInfo", InfoWithDate(d_0101)>>,
           <<"meetingTopics", JArr(<<JStr(n_ai), JStr(n_blank)>>)>> >>)

\* the workgroup id of R_full under another display name
R_moved ==
    RawMeeting(n_Edu, n_g1,
        << <<"meetingInfo",
             JObj(<< <<"date", JStr(d_0201)>>,
                     <<"host", JStr(n_Bob)>> >>)>> >>)

GraphRecords ==
    {R_full, R_feb, R_min, R_names, R_spaces, R_moved,
     RawMeeting(n_Gov, n_g1, << <<"meetingInfo", InfoWithDate(d_bad)>> >>)}

InitGraphs ==
    /\ file \in {[exists |-> TRUE, valid_json |-> TRUE, data |-> JArr(a)] :
                    a \in SeqsUpTo(GraphRecords, MaxMeetings)}
    /\ pc = "start"
    /\ index = 0
    /\ meetings = <<>>
    /\ call = [op |-> "load_archive"]
    /\ ret = Pending
    /\ call2 = NoCall
    /\ ret2 = Pending
    /\ threads = <<>>

\* person_extractor.extract_all_people(meetings)
ExtractAllPeople ==
    /\ pc = "returned" /\ call.op = "load_archive"
    /\ call' = [op |-> "extract_all_people"]
    /\ ret' = Return(extract_all_people(meetings))
    /\ UNCHANGED <<file, pc, index, meetings, call2, ret2, threads>>

\* topic_extractor.extract_all_topics(meetings)
ExtractAllTopics ==
    /\ pc = "returned" /\ call.op = "load_archive"
    /\ call' = [op |-> "extract_all_topics"]
    /\ ret' = Return(extract_all_topics(meetings))
    /\ UNCHANGED <<file, pc, index, meetings, call2, ret2, threads>>

\* topic_extractor.extract_topics_normalized(meetings)
ExtractTopicsNormalized ==
    /\ pc = "returned" /\ call.op = "load_archive"
    /\ call' = [op |-> "extract_topics_normalized"]
    /\ ret' = Return(extract_topics_normalized(meetings))
    /\ UNCHANGED <<file, pc, index, meetings, call2, ret2, threads>>

\* graph_service.build_people_workgroups_graph(meetings)
BuildPeopleWorkgroupsGraph ==
    /\ pc = "returned" /\ call.op = "load_archive"
    /\ call' = [op |-> "build_people_workgroups_graph"]
    /\ ret' = Return(build_people_workgroups_graph(meetings))
    /\ UNCHANGED <<file, pc, index, meetings, call2, ret2, threads>>

\* graph_service.build_topic_cooccurrence_graph(meetings)
BuildTopicCooccurrenceGraph ==
    /\ pc = "returned" /\ call.op = "load_archive"
    /\ call' = [op |-> "build_topic_cooccurrence_graph"]
    /\ ret' = Return(build_topic_cooccurrence_graph(meetings))
    /\ UNCHANGED <<file, pc, index, meetings, call2, ret2, threads>>

\* the graph the named builder makes of the meetings
BuildGraph(builder, ms) ==
    IF builder = "build_people_workgroups_graph"
    THEN build_people_workgroups_graph(ms)
    ELSE build_topic_cooccurrence_graph(ms)

\* every selection of the meetings, in their order
SubCollections(ms) == {Pick(ms, I) : I \in SUBSET (1..Len(ms))}

\* graph_service.filter_graph(graph, meetings, ...), for a graph that one of
\* the builders made of the meetings or of a selection of them (the
\* meetings an earlier filter kept)
FilterGraph ==
    /\ pc = "returned" /\ call.op = "load_archive"
    /\ \E builder \in {"build_people_workgroups_graph",
                       "build_topic_cooccurrence_graph"},
          shown \in SubCollections(meetings),
          w \in WorkgroupCriteria, s \in StartCriteria, e \in EndCriteria :
        /\ call' = [op |-> "filter_graph", builder |-> builder,
                    nx_graph |-> BuildGraph(builder, shown),
                    workgroup |-> w, start_date |-> s, end_date |-> e]
        /\ ret' = Return(filter_graph(BuildGraph(builder, shown), meetings,
                                      w, s, e))
    /\ UNCHANGED <<file, pc, index, meetings, call2, ret2, threads>>

NextGraphs ==
    \/ OpenFile
    \/ JsonLoad
    \/ StartLoop
    \/ LoopAppend
    \/ LoopSkip
    \/ ReturnMeetings
    \/ FilterMeetings
    \/ FilterDecisions
    \/ FilterActionItems
    \/ AggregateDecisions
    \/ AggregateActionItems
    \/ ExtractAllPeople
    \/ ExtractAllTopics
    \/ ExtractTopicsNormalized
    \/ BuildPeopleWorkgroupsGraph
    \/ BuildTopicCooccurrenceGraph
    \/ FilterGraph

SpecGraphs == InitGraphs /\ [][NextGraphs]_vars

----------------------------------------------------------------------------
(* Read-only operations running concurrently over one loaded collection,
   specification SpecConcurrent.  A thread runs one operation; a step is one
   iteration of the operation's loop over the meetings, or one of
   filter_decisions' list comprehensions.  Between the steps of one thread
   the other threads take theirs. *)

Threads == {1, 2}

Idle == [call |-> NoCall, step |-> 0, locals |-> JNull, ret |-> Pending]

ConcurrentRecords == {R_full, R_feb, R_names}

ConcurrentCalls ==
    {[op |-> o] : o \in {"aggregate_decisions", "extract_all_people",
                         "extract_all_topics",
                         "build_topic_cooccurrence_graph"}}
    \cup {[op |-> "filter_decisions", workgroup |-> w, start_date |-> s,
           end_date |-> e] :
             w \in {JNull, JStr(n_Gov)}, s \in {JNull, JDate(15)},
             e \in {JNull, JDate(15)}}

InitConcurrent ==
    /\ file \in {[exists |-> TRUE, valid_json |-> TRUE, data |-> JArr(a)] :
                    a \in SeqsUpTo(ConcurrentRecords, MaxMeetings)}
    /\ pc = "start"
    /\ index = 0
    /\ meetings = <<>>
    /\ call = [op |-> "load_archive"]
    /\ ret = Pending
    /\ call2 = NoCall
    /\ ret2 = Pending
    /\ threads = [t \in Threads |-> Idle]

\* the locals of an operation before its first step: all_decisions = [],
\* people_dict = {}, topics_set = set(), graph = nx.Graph(), and
\* filtered = decisions (the aggregated decisions of the collection)
StartLocals(c, ms) ==
    CASE c.op = "aggregate_decisions" -> <<>>
      [] c.op = "extract_all_people" -> [n \in {} |-> Person(<<>>)]
      [] c.op = "extract_all_topics" -> {}
      [] c.op = "build_topic_cooccurrence_graph" -> EmptyGraph
      [] c.op = "filter_decisions" -> aggregate_decisions(ms)

\* the number of steps: one per meeting, none on an empty collection;
\* filter_decisions returns at once on no decisions and else has three
StepsOf(c, ms) ==
    IF c.op = "filter_decisions"
    THEN (IF aggregate_decisions(ms) = <<>> THEN 0 ELSE 3)
    ELSE Len(ms)

\* aggregate_decisions, one iteration: extend all_decisions
AggregateStep(all_decisions, meeting) ==
    IF Truthy(meeting.decisions)
    THEN all_decisions \o meeting.decisions.v
    ELSE all_decisions

\* extract_all_topics, one iteration: topics_set.update
TopicsStep(topics_set, meeting) ==
    IF Truthy(meeting.topics_covered)
    THEN topics_set \cup Range(meeting.topics_covered.v)
    ELSE topics_set

\* build_topic_cooccurrence_graph, one iteration: the meeting's topics
\* become nodes and each pair the nested loops visit adds one to its edge
TopicGraphStep(graph, meeting) ==
    IF ~Truthy(meeting.topics_covered) THEN graph
    ELSE
    LET normalized_topics == NormalizedTopics(meeting)
        topics == Range(normalized_topics)
        links == {e \in {{a, b} : a \in topics, b \in topics} :
                     PairsOn(normalized_topics, e) > 0}
        Before(e) == IF e \in DOMAIN graph.edges THEN graph.edges[e].weight
                     ELSE 0
    IN  [nodes |-> [n \in DOMAIN graph.nodes \cup topics |-> "topic"],
         edges |-> [e \in DOMAIN graph.edges \cup links |->
                       [weight |-> Before(e) + PairsOn(normalized_topics, e)]]]

\* filter_decisions, one comprehension: by workgroup, by start, by end
FilterDecisionsPass(c, filtered, k) ==
    LET WorkgroupIs(d) == d.workgroup = c.workgroup
        NotBefore(d) == d.date.v >= c.start_date.v
        NotAfter(d) == d.date.v <= c.end_date.v
    IN  CASE k = 1 -> IF Truthy(c.workgroup)
                      THEN SelectSeq(filtered, WorkgroupIs) ELSE filtered
          [] k = 2 -> IF Truthy(c.start_date)
                      THEN SelectSeq(filtered, NotBefore) ELSE filtered
          [] k = 3 -> IF Truthy(c.end_date)
                      THEN SelectSeq(filtered, NotAfter) ELSE filtered

\* the locals after step k, which reads the shared collection
StepLocals(c, ms, locals, k) ==
    CASE c.op = "aggregate_decisions" -> AggregateStep(locals, ms[k])
      [] c.op = "extract_all_people" -> VisitAll(locals, ms[k], VisitsOf(ms[k]))
      [] c.op = "extract_all_topics" -> TopicsStep(locals, ms[k])
      [] c.op = "build_topic_cooccurrence_graph" -> TopicGraphStep(locals, ms[k])
      [] c.op = "filter_decisions" -> FilterDecisionsPass(c, locals, k)

\* a step that extends the first meeting's decisions list in place, as an
\* aggregation accumulating into that list would
SharedAfterStepInPlace(c, ms, k) ==
    IF c.op = "aggregate_decisions" /\ k > 1
    THEN [ms EXCEPT ![1].decisions.v = @ \o ms[k].decisions.v]
    ELSE ms

\* the shared collection after step k: no statement of any of the loops
\* assigns to the list, to a Meeting or to one of its items
SharedAfterStep(c, ms, k) == ms

\* the value the operation returns from its locals
ResultOf(c, locals) ==
    IF c.op = "extract_all_topics" THEN Sorted(locals) ELSE locals

\* a thread calls an operation on the loaded collection
Begin(t) ==
    /\ pc = "returned"
    /\ threads[t] = Idle
    /\ \E c \in ConcurrentCalls :
        threads' = [threads EXCEPT
                       ![t] = [call |-> c, step |-> 0,
                               locals |-> StartLocals(c, meetings),
                               ret |-> Pending]]
    /\ UNCHANGED <<file, pc, index, call, ret, call2, ret2, meetings>>

\* a thread takes the next step of its operation
Step(t) ==
    /\ threads[t].call # NoCall
    /\ threads[t].ret = Pending
    /\ threads[t].step < StepsOf(threads[t].call, meetings)
    /\ threads' = [threads EXCEPT
                      ![t].step = @ + 1,
                      ![t].locals = StepLocals(threads[t].call, meetings, @,
                                               threads[t].step + 1)]
    /\ meetings' = SharedAfterStep(threads[t].call, meetings,
                                   threads[t].step + 1)
    /\ UNCHANGED <<file, pc, index, call, ret, call2, ret2>>

\* a thread's operation returns
Finish(t) ==
    /\ threads[t].call # NoCall
    /\ threads[t].ret = Pending
    /\ threads[t].step = StepsOf(threads[t].call, meetings)
    /\ threads' = [threads EXCEPT
                      ![t].ret = Return(ResultOf(threads[t].call,
                                                 threads[t].locals))]
    /\ UNCHANGED <<file, pc, index, call, ret, call2, ret2, meetings>>

NextConcurrent ==
    \/ OpenFile
    \/ JsonLoad
    \/ StartLoop
    \/ LoopAppend
    \/ ReturnMeetings
    \/ \E t \in Threads : Begin(t)
    \/ \E t \in Threads : Step(t)
    \/ \E t \in Threads : Finish(t)

SpecConcurrent == InitConcurrent /\ [][NextConcurrent]_vars

----------------------------------------------------------------------------
(* WorkgroupService on a loaded archive, specification SpecWorkgroups *)

\* Workgroup(id, name, meetings)
Workgroup(id, name, ms) == [id |-> id, name |-> name, meetings |-> ms]

\* the positions of the first meeting of each workgroup id, in list order:
\* the keys of workgroup_dict in insertion order
FirstOfEachId(ms) ==
    Pick([i \in 1..Len(ms) |-> i],
         {i \in 1..Len(ms) :
             \A j \in 1..(i - 1) : ms[j].workgroup_id # ms[i].workgroup_id})

\* WorkgroupService.get_all_workgroups()
get_all_workgroups(self_meetings) ==
    LET firsts == FirstOfEachId(self_meetings)
        meetings_list(k) ==
            SelectSeq(self_meetings,
                      LAMBDA m : m.workgroup_id
                                    = self_meetings[firsts[k]].workgroup_id)
    IN  [k \in 1..Len(firsts) |->
            Workgroup(self_meetings[firsts[k]].workgroup_id.v,
                      meetings_list(k)[1].workgroup.v,
                      meetings_list(k))]

\* list.sort(key=lambda m: m.date, reverse=reverse), one insertion: the
\* sort is stable, also when reversed
RECURSIVE InsertByDate(_, _, _)
InsertByDate(sorted, m, reverse) ==
    IF sorted = <<>> THEN <<m>>
    ELSE IF (IF reverse THEN Head(sorted).date.v >= m.date.v
             ELSE Head(sorted).date.v <= m.date.v)
         THEN <<Head(sorted)>> \o InsertByDate(Tail(sorted), m, reverse)
         ELSE <<m>> \o sorted

\* a sort that ignores reverse
SortOldestFirst(ms, reverse) ==
    LET RECURSIVE Sort(_, _)
        Sort(done, rest) ==
            IF rest = <<>> THEN done
            ELSE Sort(InsertByDate(done, Head(rest), FALSE), Tail(rest))
    IN  Sort(<<>>, ms)

\* list.sort(key=lambda m: m.date, reverse=reverse)
SortByDate(ms, reverse) ==
    LET RECURSIVE Sort(_, _)
        Sort(done, rest) ==
            IF rest = <<>> THEN done
            ELSE Sort(InsertByDate(done, Head(rest), reverse), Tail(rest))
    IN  Sort(<<>>, ms)

\* WorkgroupService.get_meetings_by_workgroup(workgroup_name, sort_order):
\* the comprehension makes a new list, which is the one sorted
get_meetings_by_workgroup(self_meetings, workgroup_name, sort_order) ==
    LET workgroup_meetings ==
            SelectSeq(self_meetings, LAMBDA m : m.workgroup.v = workgroup_name)
    IN  SortByDate(workgroup_meetings, sort_order # "oldest")

\* two workgroup ids under one display name (Edu is e1 in the other
\* records), and one id under two names (g1 is Gov in the other records)
R_renamed == RawMeeting(n_Edu, n_g1, << <<"meetingInfo", InfoWithDate(d_0201)>> >>)

WorkgroupRecords == {R_full, R_long, R_feb, R_min, R_renamed}

WorkgroupNames == {n_Gov, n_Edu, n_zzz}
SortOrders == {"newest", "oldest", "latest"}

InitWorkgroups ==
    /\ file \in {[exists |-> TRUE, valid_json |-> TRUE, data |-> JArr(a)] :
                    a \in SeqsUpTo(WorkgroupRecords, MaxGrouped)}
    /\ pc = "start"
    /\ index = 0
    /\ meetings = <<>>
    /\ call = [op |-> "load_archive"]
    /\ ret = Pending
    /\ call2 = NoCall
    /\ ret2 = Pending
    /\ threads = <<>>

\* WorkgroupService(meetings).get_all_workgroups()
GetAllWorkgroups ==
    /\ pc = "returned"
    /\ call2' = [op |-> "get_all_workgroups"]
    /\ ret2' = Return(get_all_workgroups(meetings))
    /\ UNCHANGED <<file, pc, index, meetings, call, ret, threads>>

\* WorkgroupService(meetings).get_meetings_by_workgroup(name, sort_order)
GetMeetingsByWorkgroup ==
    /\ pc = "returned"
    /\ \E name \in WorkgroupNames, sort_order \in SortOrders :
        /\ call2' = [op |-> "get_meetings_by_workgroup",
                     workgroup_name |-> name, sort_order |-> sort_order]
        /\ ret2' = Return(get_meetings_by_workgroup(meetings, name, sort_order))
    /\ UNCHANGED <<file, pc, index, meetings, call, ret, threads>>

NextWorkgroups ==
    \/ OpenFile
    \/ JsonLoad
    \/ StartLoop
    \/ LoopAppend
    \/ ReturnMeetings
    \/ GetAllWorkgroups
    \/ GetMeetingsByWorkgroup

SpecWorkgroups == InitWorkgroups /\ [][NextWorkgroups]_vars

----------------------------------------------------------------------------
(* normalize_meeting called on one record, specification SpecNormalize *)

\* a key the record does not have
Absent == [t |-> "absent"]

\* the key with its value, or nothing when the key is absent
Opt(key, value) == IF value = Absent THEN <<>> ELSE << <<key, value>> >>

RawRecord(workgroup, workgroup_id, type, meeting_info, rest) ==
    JObj(Opt("workgroup", workgroup) \o Opt("workgroup_id", workgroup_id)
         \o Opt("type", type) \o Opt("meetingInfo", meeting_info) \o rest)

\* every combination of absent, empty and given required fields, with
\* nothing else, with a full agenda, or with tags null
MissingFieldRecords ==
    {RawRecord(w, id, ty, info, rest) :
        w \in {Absent, JStr(<<>>), JStr(n_Gov)},
        id \in {Absent, JStr(<<>>), JStr(n_g1)},
        ty \in {Absent, JStr(<<>>), JStr(n_Custom)},
        info \in {Absent, JObj(<<>>), JObj(<< <<"host", JStr(n_Bob)>> >>),
                  InfoWithDate(<<>>), InfoWithDate(d_0115), InfoWithDate(d_bad)},
        rest \in {<<>>, << <<"agendaItems", AgendaFull>> >>,
                  << <<"tags", JNull>> >>}}

\* three agenda items: the first with a blank action item and a decision of
\* unknown effect among valid ones, the second without items, the third
\* with one of each
AgendaThree == JArr(AgendaFull.v \o AgendaSmall.v)

\* complete records that differ in their agenda
NestedRecords ==
    {RawRecord(JStr(n_Gov), JStr(n_g1), JStr(n_Custom), InfoWithDate(d_0115),
               << <<"agendaItems", agenda>> >>) :
        agenda \in {AgendaFull, AgendaSmall, AgendaThree,
                    JArr(AgendaSmall.v \o AgendaFull.v), JArr(<<>>)}}

\* complete records that differ in their two sources of topics
TopicRecords ==
    {RawRecord(JStr(n_Gov), JStr(n_g1), JStr(n_Custom), InfoWithDate(d_0115),
               Opt("tags", tags) \o Opt("meetingTopics", meeting_topics)) :
        tags \in {Absent, JObj(<<>>),
                  JObj(<< <<"topicsCovered", JNull>> >>),
                  JObj(<< <<"topicsCovered", JStr(<<>>)>> >>),
                  JObj(<< <<"topicsCovered", JStr(n_ai)>> >>),
                  JObj(<< <<"topicsCovered", JStr(n_topics)>> >>)},
        meeting_topics \in {Absent, JArr(<<>>), JArr(<<JStr(n_Gov)>>),
                            JArr(<<JStr(n_ai), JStr(n_blank)>>),
                            JStr(<<>>), JStr(n_topics2), JStr(n_topics)}}

NormalizeRecords == MissingFieldRecords \cup NestedRecords \cup TopicRecords

InitNormalize ==
    /\ file = NoFile
    /\ pc = "normalize"
    /\ index = 0
    /\ meetings = <<>>
    /\ call = NoCall
    /\ ret = Pending
    /\ call2 = NoCall
    /\ ret2 = Pending
    /\ threads = <<>>

\* normalize_meeting(raw_meeting, index)
NormalizeMeeting ==
    /\ pc = "normalize"
    /\ \E raw_meeting \in NormalizeRecords, idx \in 0..1 :
        /\ call' = [op |-> "normalize_meeting", raw_meeting |-> raw_meeting,
                    index |-> idx]
        /\ ret' = normalize_meeting(raw_meeting, idx)
    /\ UNCHANGED <<file, pc, index, meetings, call2, ret2, threads>>

NextNormalize == NormalizeMeeting

SpecNormalize == InitNormalize /\ [][NextNormalize]_vars

----------------------------------------------------------------------------
(* Ownership of aggregated items, checked under SpecServices *)

\* the positions of the meetings whose id is the item's meeting_id
OwnersOf(x) == {i \in 1..Len(meetings) : meetings[i].id = x.meeting_id}

\* C11: every Decision and ActionItem returned by aggregation over a loaded
\* collection has the id of exactly one meeting of the collection as its
\* meeting_id, that meeting holds it, and the item's workgroup and date are
\* that meeting's workgroup and date.
C11_ItemsPointToTheirMeeting ==
    call.op \in {"aggregate_decisions", "aggregate_action_items"} =>
        \A k \in 1..Len(ret.val) :
            /\ Cardinality(OwnersOf(ret.val[k])) = 1
            /\ \A i \in OwnersOf(ret.val[k]) :
                /\ ret.val[k] \in
                    Range(IF call.op = "aggregate_decisions"
                          THEN meetings[i].decisions.v
                          ELSE meetings[i].action_items.v)
                /\ ret.val[k].workgroup = meetings[i].workgroup
                /\ ret.val[k].date = meetings[i].date

\* C11 witness: the decisions of two meetings of the same workgroup and the
\* same date string were aggregated
C11_Witness ==
    /\ call.op = "aggregate_decisions"
    /\ Len(meetings) = 2
    /\ file.data.v[1] = R_full /\ file.data.v[2] = R_full
    /\ Len(ret.val) = 4

----------------------------------------------------------------------------
(* People, topics and graphs of a loaded archive, checked under SpecGraphs *)

\* the names a meeting gives, each with the role it gives the name: the
\* host, the documenter, the people present and the action items' assignees
NamedIn(m) ==
    {[name |-> x.v, role |-> "host"] : x \in {y \in {m.host} : y.t = "str"}}
    \cup {[name |-> x.v, role |-> "documenter"] :
             x \in {y \in {m.documenter} : y.t = "str"}}
    \cup {[name |-> n, role |-> "participant"] :
             n \in Range(m.people_present.v)}
    \cup {[name |-> a.assignee.v, role |-> "participant"] :
             a \in {y \in Range(m.action_items.v) : y.assignee.t = "str"}}

\* the trimmed non-empty names of the meetings, with role and workgroup id
RolesHeld(ms) ==
    {h \in UNION {{[name |-> Strip(n.name), role |-> n.role,
                    workgroup_id |-> ms[i].workgroup_id.v] :
                      n \in NamedIn(ms[i])} : i \in 1..Len(ms)} :
        h.name # <<>>}

\* the roles a person of the mapping has in a workgroup id
RecordedRoles(person, workgroup_id) ==
    IF workgroup_id \in DOMAIN person.roles
    THEN Range(person.roles[workgroup_id])
    ELSE {}

TopicsListed(m) == {Lower(Strip(t)) : t \in Range(m.topics_covered.v)} \ {<<>>}

\* the meetings of ms that list every topic of e
MeetingsListing(ms, e) == {i \in 1..Len(ms) : e \subseteq TopicsListed(ms[i])}

\* C13: in the topic co-occurrence graph an edge joins two distinct
\* normalized topics exactly when some meeting lists both, and its weight is
\* the number of meetings that list both, each pair counted once per meeting
C13_WeightCountsMeetings ==
    call.op = "build_topic_cooccurrence_graph" =>
        \A a, b \in UNION {TopicsListed(meetings[i]) : i \in 1..Len(meetings)} :
            a # b =>
                /\ ({a, b} \in DOMAIN ret.val.edges)
                        = (MeetingsListing(meetings, {a, b}) # {})
                /\ {a, b} \in DOMAIN ret.val.edges =>
                        ret.val.edges[{a, b}].weight
                            = Cardinality(MeetingsListing(meetings, {a, b}))

\* C14: the topic co-occurrence graph has no self-loop, also when a meeting
\* lists the same normalized topic twice
C14_NoTopicSelfLoop ==
    call.op = "build_topic_cooccurrence_graph" =>
        \A e \in DOMAIN ret.val.edges : Cardinality(e) = 2

\* the meetings of ms in which the name holds a role
MeetingsNaming(ms, name) ==
    {i \in 1..Len(ms) : name \in {h.name : h \in RolesHeld(<<ms[i]>>)}}

\* C15: in the participation graph every person named in a meeting has the
\* edge to that meeting's workgroup display name (one edge, however many
\* meetings of the workgroup name the person), and a person has no edge to a
\* workgroup in none of whose meetings the person holds a role
C15_OneEdgePerParticipation ==
    call.op = "build_people_workgroups_graph" =>
        /\ \A i \in 1..Len(meetings) :
            \A h \in RolesHeld(<<meetings[i]>>) :
                {h.name, meetings[i].workgroup.v} \in DOMAIN ret.val.edges
        /\ \A p \in {h.name : h \in RolesHeld(meetings)} :
            \A w \in {meetings[i].workgroup.v : i \in 1..Len(meetings)} :
                {p, w} \in DOMAIN ret.val.edges =>
                    \E i \in MeetingsNaming(meetings, p) :
                        meetings[i].workgroup.v = w

\* Alice is host in Gov and participant in Edu: one edge to each, two in all
C15_Witness ==
    /\ call.op = "build_people_workgroups_graph"
    /\ Len(meetings) = 2
    /\ {e \in DOMAIN ret.val.edges : n_Alice \in e}
            = {{n_Alice, n_Gov}, {n_Alice, n_Edu}}

\* C16: in the participation graph every workgroup display name is a node
\* tagged "workgroup", every extracted person name is a node tagged "person",
\* and every edge joins one person node to one workgroup node: no
\* person-person edge, no workgroup-workgroup edge, no self-loop
C16_PersonWorkgroupEdgesOnly ==
    call.op = "build_people_workgroups_graph" =>
        /\ \A i \in 1..Len(meetings) :
            /\ meetings[i].workgroup.v \in DOMAIN ret.val.nodes
            /\ ret.val.nodes[meetings[i].workgroup.v] = "workgroup"
        /\ \A h \in RolesHeld(meetings) :
            /\ h.name \in DOMAIN ret.val.nodes
            /\ ret.val.nodes[h.name] = "person"
        /\ \A e \in DOMAIN ret.val.edges :
            /\ Cardinality(e) = 2
            /\ {ret.val.nodes[n] : n \in e} = {"person", "workgroup"}

\* the meetings that satisfy the criteria of a filter_graph call
MeetingsSatisfying(ms, c) ==
    Pick(ms, {i \in 1..Len(ms) :
                 MeetingSatisfies(ms[i], [workgroup |-> c.workgroup,
                                          start_date |-> c.start_date,
                                          end_date |-> c.end_date,
                                          tags |-> JNull])})

\* C17: for every graph a builder produced, also one with no nodes, and
\* every criteria set, filter_graph returns the graph the same builder makes
\* of the meetings satisfying the criteria; a participation graph filtered by
\* workgroup w has no workgroup node other than w
C17_FilterGraphIsRebuild ==
    call.op = "filter_graph" =>
        /\ ret.exc = "none"
        /\ ret.val = BuildGraph(call.builder,
                                MeetingsSatisfying(meetings, call))
        /\ (/\ call.builder = "build_people_workgroups_graph"
            /\ Supplied(call.workgroup)) =>
                \A n \in DOMAIN ret.val.nodes :
                    ret.val.nodes[n] = "workgroup" => n = call.workgroup.v

\* every string of some meeting's topics_covered
TopicStrings(ms) == UNION {Range(ms[i].topics_covered.v) : i \in 1..Len(ms)}

\* C18: extract_all_topics returns the sorted duplicate-free list of the
\* strings of the meetings' topics_covered, equal strings merged and strings
\* that differ in letter case both kept; extract_topics_normalized returns
\* the set of their trimmed lower-cased forms
C18_TopicListsExact ==
    /\ call.op = "extract_all_topics" =>
        /\ ret.exc = "none"
        /\ Range(ret.val) = TopicStrings(meetings)
        /\ \A k \in 1..(Len(ret.val) - 1) : StrLess(ret.val[k], ret.val[k + 1])
    /\ call.op = "extract_topics_normalized" =>
        /\ ret.exc = "none"
        /\ ret.val = {Lower(Strip(t)) : t \in TopicStrings(meetings)}

\* "AI" and "ai" are both in the list, upper case first, and "Gov", listed
\* twice, is there once
C18_Witness ==
    /\ call.op = "extract_all_topics"
    /\ ret.val = <<<<"A","I">>, <<"G","o","v">>, n_ai>>
    /\ Len(meetings[1].topics_covered.v) = 4

\* the operations that take the meeting collection alone or with criteria
CollectionOps ==
    {"filter_meetings", "filter_decisions", "filter_action_items",
     "aggregate_decisions", "aggregate_action_items", "extract_all_people",
     "extract_all_topics", "extract_topics_normalized",
     "build_people_workgroups_graph", "build_topic_cooccurrence_graph"}

\* C20: on an empty meeting collection every filter, aggregation, extractor
\* and graph builder returns the empty result of its type (empty list, empty
\* mapping, empty set, graph without nodes and edges) and raises nothing
C20_EmptyInEmptyOut ==
    (meetings = <<>> /\ call.op \in CollectionOps) =>
        /\ ret.exc = "none"
        /\ CASE call.op = "extract_all_people" -> DOMAIN ret.val = {}
             [] call.op = "extract_topics_normalized" -> ret.val = {}
             [] call.op \in {"build_people_workgroups_graph",
                             "build_topic_cooccurrence_graph"} ->
                    /\ DOMAIN ret.val.nodes = {}
                    /\ DOMAIN ret.val.edges = {}
             [] OTHER -> ret.val = <<>>

\* an archive whose only record was skipped: the normalized topics of no
\* meetings are the empty set
C20_Witness ==
    /\ meetings = <<>>
    /\ Len(file.data.v) = 1
    /\ call.op = "extract_topics_normalized"
    /\ ret.val = {}

----------------------------------------------------------------------------
(* Concurrent read-only use, checked under SpecConcurrent *)

\* what the operation of call c returns when it runs alone on ms
AloneResult(c, ms) ==
    CASE c.op = "aggregate_decisions" -> aggregate_decisions(ms)
      [] c.op = "extract_all_people" -> extract_all_people(ms)
      [] c.op = "extract_all_topics" -> extract_all_topics(ms)
      [] c.op = "build_topic_cooccurrence_graph" ->
            build_topic_cooccurrence_graph(ms)
      [] c.op = "filter_decisions" ->
            filter_decisions(aggregate_decisions(ms), c.workgroup,
                             c.start_date, c.end_date)

\* C19: in every interleaving of filter, aggregation, person extraction,
\* topic extraction and graph building over one collection, the collection
\* with its meetings and items stays as load_archive returned it, and every
\* operation returns what it returns when it runs alone
C19_ConcurrentReadsAreSafe ==
    pc = "returned" =>
        /\ meetings = ret.val.v
        /\ \A t \in Threads :
            threads[t].ret # Pending =>
                threads[t].ret = Return(AloneResult(threads[t].call, ret.val.v))

\* an aggregation that finished after the people extraction had started and
\* before it finished, over two meetings
C19_Witness ==
    /\ pc = "returned"
    /\ Len(meetings) = 2
    /\ threads[1].call.op = "aggregate_decisions"
    /\ threads[1].ret = Return(aggregate_decisions(meetings))
    /\ Len(threads[1].ret.val) > 1
    /\ threads[2].call.op = "extract_all_people"
    /\ threads[2].step = 1
    /\ threads[2].ret = Pending

----------------------------------------------------------------------------
(* WorkgroupService, checked under SpecWorkgroups *)

\* how often x occurs in the list
Occurrences(list, x) == Cardinality({i \in 1..Len(list) : list[i] = x})

\* C21: get_meetings_by_workgroup returns exactly the meetings whose
\* workgroup name equals the given name, newest first unless sort_order is
\* "oldest" and then oldest first, the empty list for an unknown name, and
\* the service's meeting list keeps its order
C21_ByWorkgroupSortedByDate ==
    call2.op = "get_meetings_by_workgroup" =>
        LET matching == {i \in 1..Len(meetings) :
                            meetings[i].workgroup.v = call2.workgroup_name}
        IN  /\ ret2.exc = "none"
            /\ Len(ret2.val) = Cardinality(matching)
            /\ \A i \in 1..Len(meetings) :
                Occurrences(ret2.val, meetings[i])
                    = IF i \in matching THEN Occurrences(meetings, meetings[i])
                      ELSE 0
            /\ \A k \in 1..(Len(ret2.val) - 1) :
                IF call2.sort_order = "oldest"
                THEN ret2.val[k].date.v <= ret2.val[k + 1].date.v
                ELSE ret2.val[k].date.v >= ret2.val[k + 1].date.v
            /\ meetings = ret.val.v

\* three meetings named Edu dated day 1, 32 and 32 came back newest first
\* while the service's list still starts with the oldest
C21_Witness ==
    /\ call2.op = "get_meetings_by_workgroup"
    /\ call2.sort_order = "newest"
    /\ Len(ret2.val) = 3
    /\ meetings[1].date.v = 1
    /\ ret2.val[3] = meetings[1]
    /\ ret2.val[1].date.v = 32

----------------------------------------------------------------------------
(* normalize_meeting, checked under SpecNormalize *)

\* the key is absent, null or empty
Missing(d, k) == ~Has(d, k) \/ d.v[k] \in {JNull, JStr(<<>>)}

\* the required fields the record lacks
MissingFields(raw) ==
    {f \in {"workgroup", "workgroup_id", "type"} : Missing(raw, f)}
    \cup {f \in {"meetingInfo.date"} :
            \/ ~Has(raw, "meetingInfo")
            \/ raw.v["meetingInfo"].t # "obj"
            \/ Missing(raw.v["meetingInfo"], "date")}

\* the error text that names the field
MissingFieldMessage(f) ==
    CASE f = "workgroup" -> "Missing required field: workgroup"
      [] f = "workgroup_id" -> "Missing required field: workgroup_id"
      [] f = "type" -> "Missing required field: type"
      [] f = "meetingInfo.date" -> "Missing required field: meetingInfo.date"

\* C22: normalize_meeting on a record in which workgroup, workgroup_id, type
\* or meetingInfo.date is absent or empty (a record without meetingInfo
\* included) fails with an error naming a missing field, before any
\* extraction: no Meeting is made and no later error takes its place
C22_MissingFieldNamed ==
    (call.op = "normalize_meeting"
        /\ MissingFields(call.raw_meeting) # {}) =>
            /\ ret.exc = "ValueError"
            /\ ret.val = JNull
            /\ ret.msg \in {MissingFieldMessage(f) :
                               f \in MissingFields(call.raw_meeting)}

\* the raw items under key of the record's agenda, as positions
\* <<agenda index, item index>> (both from 0)
RawItemPositions(raw, key) ==
    LET agenda == GetD(raw, "agendaItems", JArr(<<>>)).v
    IN  UNION {{<<a, j>> : j \in 0..(Len(GetD(agenda[a + 1], key, JArr(<<>>)).v) - 1)} :
                  a \in 0..(Len(agenda) - 1)}

RawItemAt(raw, key, p) == raw.v["agendaItems"].v[p[1] + 1].v[key].v[p[2] + 1]

\* an action item fails its validation: no text after trimming
ActionFails(item) ==
    ~Truthy(Get(item, "text")) \/ Strip(Get(item, "text").v) = <<>>

\* a decision fails its validation: no text after trimming, or an effect
\* that is neither of the two
DecisionFails(item) ==
    \/ ~Truthy(Get(item, "decision"))
    \/ Strip(Get(item, "decision").v) = <<>>
    \/ (Truthy(Get(item, "effect"))
            /\ Lower(Get(item, "effect").v) \notin valid_effects)

\* source order of positions: agenda index first, item index second
Earlier(p, q) == p[1] < q[1] \/ (p[1] = q[1] /\ p[2] < q[2])

\* list holds one entry for each position of kept, in source order, and the
\* entry of position p has the text under text_key of the raw item at p
KeepsInOrder(list, kept, raw, key, text_key, text_field) ==
    /\ Len(list) = Cardinality(kept)
    /\ \A p \in kept :
        LET k == Cardinality({q \in kept : Earlier(q, p)}) + 1
        IN  list[k][text_field] = Strip(RawItemAt(raw, key, p).v[text_key].v)

\* C23: a nested action item or decision that fails its validation (empty
\* text, unrecognized effect) is the only thing dropped: the Meeting is
\* produced and holds every other action item and decision, of the same and
\* of later agenda items, in source order
C23_OnlyBadItemDropped ==
    (call.op = "normalize_meeting" /\ call.raw_meeting \in NestedRecords) =>
        /\ ret.exc = "none"
        /\ KeepsInOrder(ret.val.action_items.v,
                {p \in RawItemPositions(call.raw_meeting, "actionItems") :
                    ~ActionFails(RawItemAt(call.raw_meeting, "actionItems", p))},
                call.raw_meeting, "actionItems", "text", "text")
        /\ KeepsInOrder(ret.val.decisions.v,
                {p \in RawItemPositions(call.raw_meeting, "decisionItems") :
                    ~DecisionFails(RawItemAt(call.raw_meeting, "decisionItems", p))},
                call.raw_meeting, "decisionItems", "decision", "decision_text")

\* of four raw action items and four raw decisions in three agenda items,
\* one of each failed and three of each are in the Meeting
C23_Witness ==
    /\ call.op = "normalize_meeting"
    /\ call.raw_meeting \in NestedRecords
    /\ Len(call.raw_meeting.v["agendaItems"].v) = 3
    /\ Cardinality(RawItemPositions(call.raw_meeting, "actionItems")) = 4
    /\ Cardinality(RawItemPositions(call.raw_meeting, "decisionItems")) = 4
    /\ ret.exc = "none"
    /\ Len(ret.val.action_items.v) = 3
    /\ Len(ret.val.decisions.v) = 3
    /\ ret.val.decisions.v[3].decision_text = n_defer

----------------------------------------------------------------------------
(* Ids of one load, checked under SpecGraphs *)

\* the ids of list are pairwise distinct and are, in source order, the ids
\* prefix_a_j of the positions <<a, j>> of kept
ItemIdsEmbed(list, kept, prefix) ==
    /\ Len(list) = Cardinality(kept)
    /\ \A k, l \in 1..Len(list) : k # l => list[k].id # list[l].id
    /\ \A p \in kept :
        LET k == Cardinality({q \in kept : Earlier(q, p)}) + 1
        IN  list[k].id.v = prefix \o <<Digit[p[1] + 1], "_", Digit[p[2] + 1]>>

\* C24: the meetings of one load have pairwise distinct ids, each ending in
\* the record's index in the source array, and in each meeting the action
\* item ids and the decision ids are pairwise distinct and end in the agenda
\* index and item index of the source arrays: a skipped record or item
\* leaves a gap
C24_IdsUniqueAndIndexed ==
    (pc \in {"loop", "returned"} /\ call.op = "load_archive") =>
        LET seen == Indexed(SubSeq(file.data.v, 1, index))
            kept == Pick(seen, {i \in 1..Len(seen) : Passes(seen[i].raw)})
        IN  /\ Len(meetings) = Len(kept)
            /\ \A k, l \in 1..Len(meetings) :
                k # l => meetings[k].id # meetings[l].id
            /\ \A k \in 1..Len(meetings) :
                LET raw == kept[k].raw
                    id == raw.v["workgroup_id"].v \o <<"_">>
                            \o raw.v["meetingInfo"].v["date"].v
                            \o <<"_", Digit[kept[k].at + 1]>>
                IN  /\ meetings[k].id.v = id
                    /\ ItemIdsEmbed(meetings[k].action_items.v,
                            {p \in RawItemPositions(raw, "actionItems") :
                                ~ActionFails(RawItemAt(raw, "actionItems", p))},
                            id \o s_action)
                    /\ ItemIdsEmbed(meetings[k].decisions.v,
                            {p \in RawItemPositions(raw, "decisionItems") :
                                ~DecisionFails(RawItemAt(raw, "decisionItems", p))},
                            id \o s_decision)

\* the first record was skipped and the meeting of the second has index 1
\* in its id; its action items are numbered 0_0 and 0_2, the blank one
\* between them having been dropped
C24_Witness ==
    /\ pc = "returned" /\ call.op = "load_archive"
    /\ Len(file.data.v) = 2
    /\ Len(meetings) = 1
    /\ meetings[1].id.v = n_g1 \o <<"_">> \o d_0115 \o <<"_", "1">>
    /\ Len(meetings[1].action_items.v) = 2
    /\ meetings[1].action_items.v[2].id.v
            = meetings[1].id.v \o s_action \o <<"0", "_", "2">>

----------------------------------------------------------------------------
(* The lists of a Person, checked under SpecGraphs *)

\* no element of the list occurs twice
NoRepeat(list) == \A k, l \in 1..Len(list) : k # l => list[k] # list[l]

\* the ids of the meetings of ms that name the person, in the order of ms
AttendedIds(ms, name) ==
    Pick([i \in 1..Len(ms) |-> ms[i].id.v], MeetingsNaming(ms, name))

\* the action items of ms in meeting order, then item order
RECURSIVE ItemsInOrder(_)
ItemsInOrder(ms) ==
    IF ms = <<>> THEN <<>>
    ELSE Head(ms).action_items.v \o ItemsInOrder(Tail(ms))

\* the ids of the action items of ms assigned to the person, in that order
AssignedIds(ms, name) ==
    LET assigned == SelectSeq(ItemsInOrder(ms),
                        LAMBDA a : /\ a.assignee.t = "str"
                                   /\ Strip(a.assignee.v) = name)
    IN  [k \in 1..Len(assigned) |-> assigned[k].id.v]

\* C25: for every Person of extract_all_people, meetings_attended holds each
\* meeting id at most once and is the ids of the meetings that name the
\* person in any role, in the order of the meetings, and
\* action_items_assigned holds each id at most once and is the ids of the
\* action items assigned to the person, in meeting order then item order
C25_PersonListsExact ==
    call.op = "extract_all_people" =>
        \A p \in DOMAIN ret.val :
            /\ NoRepeat(ret.val[p].meetings_attended)
            /\ ret.val[p].meetings_attended = AttendedIds(meetings, p)
            /\ NoRepeat(ret.val[p].action_items_assigned)
            /\ ret.val[p].action_items_assigned = AssignedIds(meetings, p)

\* Alice is host, participant and assignee in each of two meetings: two
\* meeting ids and two action item ids
C25_Witness ==
    /\ call.op = "extract_all_people"
    /\ Len(meetings) = 2
    /\ n_Alice \in DOMAIN ret.val
    /\ Cardinality({h \in RolesHeld(<<meetings[1]>>) : h.name = n_Alice}) = 2
    /\ ret.val[n_Alice].meetings_attended
            = <<meetings[1].id.v, meetings[2].id.v>>
    /\ Len(ret.val[n_Alice].action_items_assigned) = 2

----------------------------------------------------------------------------
(* Person extraction and the order of the meetings, checked under
   SpecGraphs *)

\* the orderings of the list ms
Reorderings(ms) ==
    {[i \in 1..Len(ms) |-> ms[f[i]]] : f \in Permutations(1..Len(ms))}

\* what a Person holds, the order of the lists left out
Membership(person) ==
    [workgroups |-> person.workgroups,
     roles |-> [w \in DOMAIN person.roles |-> Range(person.roles[w])],
     meetings_attended |-> Range(person.meetings_attended),
     action_items_assigned |-> Range(person.action_items_assigned)]

\* C26: for every permutation of the meetings extract_all_people returns the
\* same set of names and, for each person, the same set of workgroup ids,
\* the same set of roles per workgroup id, the same set of attended meeting
\* ids and the same set of assigned action item ids
C26_PeopleOrderIndependent ==
    call.op = "extract_all_people" =>
        \A ms \in Reorderings(meetings) :
            LET people == extract_all_people(ms)
            IN  /\ DOMAIN people = DOMAIN ret.val
                /\ \A p \in DOMAIN ret.val :
                    Membership(people[p]) = Membership(ret.val[p])

\* a person of two meetings and two action items, whose lists come out in
\* the other order when the meetings are swapped
C26_Witness ==
    /\ call.op = "extract_all_people"
    /\ Len(meetings) = 2
    /\ n_Alice \in DOMAIN ret.val
    /\ Len(ret.val[n_Alice].action_items_assigned) = 2
    /\ extract_all_people(<<meetings[2], meetings[1]>>)[n_Alice]
            .meetings_attended
         = <<meetings[2].id.v, meetings[1].id.v>>
    /\ extract_all_people(<<meetings[2], meetings[1]>>)[n_Alice]
            # ret.val[n_Alice]

----------------------------------------------------------------------------
(* Nodes of the topic co-occurrence graph, checked under SpecGraphs *)

\* C27: the nodes of the topic co-occurrence graph are the distinct trimmed
\* lower-cased strings of the meetings' topic lists, the set
\* extract_topics_normalized returns, each tagged "topic"
C27_TopicNodesAreNormalizedTopics ==
    call.op = "build_topic_cooccurrence_graph" =>
        /\ DOMAIN ret.val.nodes
                = {Lower(Strip(t)) : t \in TopicStrings(meetings)}
        /\ DOMAIN ret.val.nodes = extract_topics_normalized(meetings)
        /\ \A n \in DOMAIN ret.val.nodes : ret.val.nodes[n] = "topic"

\* the nodes are those strings with the empty one left out
TopicNodesAreNonEmptyTopics ==
    call.op = "build_topic_cooccurrence_graph" =>
        /\ DOMAIN ret.val.nodes
                = {Lower(Strip(t)) : t \in TopicStrings(meetings)} \ {<<>>}
        /\ \A n \in DOMAIN ret.val.nodes : ret.val.nodes[n] = "topic"

----------------------------------------------------------------------------
(* Topics of a normalized meeting, checked under SpecNormalize *)

\* the trimmed non-empty pieces of a comma-separated str, in source order
TrimmedPieces(text) ==
    LET pieces == SplitComma(text)
        trimmed == [i \in 1..Len(pieces) |-> Strip(pieces[i])]
    IN  SelectSeq(trimmed, LAMBDA x : x # <<>>)

\* the topics tags.topicsCovered gives
TopicsOfTags(raw) ==
    IF /\ "tags" \in DOMAIN raw.v
       /\ "topicsCovered" \in DOMAIN raw.v["tags"].v
       /\ raw.v["tags"].v["topicsCovered"].t = "str"
    THEN TrimmedPieces(raw.v["tags"].v["topicsCovered"].v)
    ELSE <<>>

\* the topics meetingTopics gives: the elements of a list as they are, the
\* pieces of a str
TopicsOfMeetingTopics(raw) ==
    IF "meetingTopics" \notin DOMAIN raw.v THEN <<>>
    ELSE IF raw.v["meetingTopics"].t = "arr"
         THEN [i \in 1..Len(raw.v["meetingTopics"].v) |->
                  raw.v["meetingTopics"].v[i].v]
         ELSE TrimmedPieces(raw.v["meetingTopics"].v)

\* C28: topics_covered of a normalized meeting is the trimmed non-empty
\* elements of tags.topicsCovered in source order followed by the elements
\* of meetingTopics (as they are when a list, split on commas and trimmed
\* when a str), letter case kept and nothing merged, so its length is the
\* sum of the two sources' element counts
C28_TopicsAreBothSources ==
    (/\ call.op = "normalize_meeting"
     /\ call.raw_meeting \in TopicRecords
     /\ ret.exc = "none") =>
        /\ ret.val.topics_covered.v
                = TopicsOfTags(call.raw_meeting)
                    \o TopicsOfMeetingTopics(call.raw_meeting)
        /\ Len(ret.val.topics_covered.v)
                = Len(TopicsOfTags(call.raw_meeting))
                    + Len(TopicsOfMeetingTopics(call.raw_meeting))

\* "AI, ai,,Gov " with meetingTopics ["Gov"]: four topics, both spellings of
\* AI kept and Gov there twice
C28_Witness ==
    /\ call.op = "normalize_meeting"
    /\ call.raw_meeting \in TopicRecords
    /\ ret.exc = "none"
    /\ ret.val.topics_covered.v = <<<<"A","I">>, n_ai, n_Gov, n_Gov>>
    /\ Len(TopicsOfTags(call.raw_meeting)) = 3
    /\ Len(TopicsOfMeetingTopics(call.raw_meeting)) = 1

----------------------------------------------------------------------------
(* Aggregation and filtering, checked under SpecServices *)

\* the loaded meetings that pass the workgroup and date-range criteria of
\* the call
MeetingsPassing(c) ==
    filter_meetings(meetings, c.workgroup, c.start_date, c.end_date, JNull)

\* C29: on loaded data, filtering the aggregated decisions by workgroup and
\* date range gives the aggregated decisions of the meetings filtered by the
\* same criteria, element for element and in the same order, and the same
\* holds for action items
C29_AggregateFilterCommute ==
    /\ call.op = "filter_decisions" =>
            ret.val = aggregate_decisions(MeetingsPassing(call))
    /\ (/\ call.op = "filter_action_items"
        /\ call.assignee = JNull
        /\ call.status = JNull) =>
            ret.val = aggregate_action_items(MeetingsPassing(call))

\* of two meetings with action items, the workgroup and the end date keep
\* one, whose date is the end date
C29_Witness ==
    /\ call.op = "filter_action_items"
    /\ call.assignee = JNull /\ call.status = JNull
    /\ Truthy(call.workgroup) /\ Truthy(call.end_date)
    /\ Len(meetings) = 2
    /\ Len(MeetingsPassing(call)) = 1
    /\ MeetingsPassing(call)[1].date.v = call.end_date.v
    /\ Len(ret.val) > 0
    /\ Len(ret.val) < Len(aggregate_action_items(meetings))

----------------------------------------------------------------------------
(* Grouping and selection by workgroup, checked under SpecWorkgroups *)

\* get_all_workgroups has one Workgroup per distinct workgroup id of the
\* meetings, and every meeting is in the list of exactly one Workgroup
GroupsPartitionById ==
    call2.op = "get_all_workgroups" =>
        /\ {ret2.val[k].id : k \in 1..Len(ret2.val)}
                = {meetings[i].workgroup_id.v : i \in 1..Len(meetings)}
        /\ \A k, l \in 1..Len(ret2.val) :
                k # l => ret2.val[k].id # ret2.val[l].id
        /\ \A i \in 1..Len(meetings) :
                Cardinality({k \in 1..Len(ret2.val) :
                                meetings[i] \in Range(ret2.val[k].meetings)}) = 1

\* C30: get_all_workgroups returns one Workgroup per distinct workgroup id
\* with every meeting in exactly one Workgroup's list, and for every
\* returned Workgroup w, get_meetings_by_workgroup(w.name) returns exactly
\* the meetings of w.meetings, as a set, also when a workgroup id occurs
\* with more than one display name or a display name with more than one id
C30_GroupingAgreesWithSelection ==
    /\ GroupsPartitionById
    /\ call2.op = "get_all_workgroups" =>
        \A k \in 1..Len(ret2.val) :
            Range(get_meetings_by_workgroup(meetings, ret2.val[k].name,
                                            "newest"))
                = Range(ret2.val[k].meetings)

====
